---- MODULE Spec2Model ----
(***************************************************************************)
(* Weave virtual DOM: the VNode factory, the diff engine, the patch        *)
(* representation, the renderer (commit engine) and the DOM host adapter,  *)
(* as a state machine.                                                     *)
(*                                                                         *)
(*   Spec      mount / update / remove-hook completion / unmount on one    *)
(*             root, against the DOM host                                  *)
(*   SpecDiff  diff as a pure function of two trees                        *)
(*   SpecH     h() on raw argument lists                                   *)
(*   SpecFull  Spec over trees with props, hooks that are called or throw, *)
(*             nested children, and updates that reuse child VNodes        *)
(*   SpecDiffFull  SpecDiff over the same trees                            *)
(***************************************************************************)
EXTENDS Integers, Sequences, FiniteSets, TLC

VARIABLES
  vnodeId,       \* core/vnode: the process-wide VNode identity counter
  currentVNode,  \* renderer: the tree rendered last (Null before mount)
  rootNode,      \* renderer: the root host node (NullNode when there is none)
  nodeMap,       \* renderer: Map<__id, host node>
  pending,       \* finalizeRemoval closures handed to remove hooks
  childNodes,    \* DOM: node -> its childNodes, for every node created
  tagName,       \* DOM: node -> element type ("#text" for Text nodes)
  data,          \* DOM: node -> character data of a Text node
  attrs,         \* DOM: node -> its attributes
  menu,          \* the family of trees this behaviour's caller builds
  hostLog,       \* calls observed at the host / hook boundary, in order
  pre,           \* the renderer and host state when the last step began
  lastOp,        \* the last step taken and its arguments (next: the tree given)
  calls,         \* number of update() / unmount() calls made on the Root
  collided,      \* some tree given to mount/update had two siblings with one key
  thrown,        \* the last call made on the renderer ended by a hook's exception
  dprev,         \* SpecDiff: diff's first argument
  dnext,         \* SpecDiff: diff's second argument
  dpatches,      \* SpecDiff: diff's result
  dpc,           \* SpecDiff: "input" before the call, "done" after
  hargs,         \* SpecH: the arguments of h(): props and the raw children
  hres,          \* SpecH: what h() returned or threw
  hpc            \* SpecH: "input" before the call, "done" after

vars == << vnodeId, currentVNode, rootNode, nodeMap, pending, childNodes,
           tagName, data, attrs, menu, hostLog, pre, lastOp, calls,
           collided, thrown,
           dprev, dnext, dpatches, dpc, hargs, hres, hpc >>

rvars == << vnodeId, currentVNode, rootNode, nodeMap, pending, childNodes,
            tagName, data, attrs, menu, hostLog, pre, lastOp, calls,
            collided, thrown >>

dvars == << dprev, dnext, dpatches, dpc, hargs, hres, hpc >>

hvars == << hargs, hres, hpc >>

----------------------------------------------------------------------------
(* Bounds of the model *)

\* longest sibling list a generated tree carries
MaxKids == 3

\* most child arguments of one h() call
MaxArgs == 2

\* longest nested array among the child arguments of h()
MaxArr == 1

\* update() and unmount() calls made on the Root that mount() returned
MaxCalls == 2

\* times one remove hook may invoke its completion callback
MaxDoneCalls == 2

----------------------------------------------------------------------------
(* VNode values: core/types.ts, core/vnode.ts *)

\* the function f on 1..n as a sequence value
AsSeq(f) == SubSeq(f, 1, Len(f))

\* VNodeKey null
NoKey == "#nokey"

\* a prop that is not in the props object
Absent == "#absent"

\* the prop names a generated tree uses; h() leaves `key` inside props
PropKeys == << "key", "class" >>

\* a props object (or an element's attributes) with no entry
NoProps == [key |-> Absent, class |-> Absent]

NoHooks == [create |-> "none", update |-> "none", remove |-> "none"]

\* VNode | null: the null tree, in the shape of a VNode
Null ==
  [id |-> -1, type |-> "#null", key |-> NoKey,
   props |-> NoProps, hooks |-> NoHooks,
   ckind |-> "none", text |-> "", kids |-> << >>]

\* createVNode: {type, props, children, key} and the next __id.
\* children (string | VNode[] | null) is carried as ckind/text/kids.
createVNode(id, type, props, hooks, ckind, text, kids, key) ==
  [id |-> id, type |-> type, key |-> key, props |-> props, hooks |-> hooks,
   ckind |-> ckind, text |-> text, kids |-> kids]

\* Array.isArray(v.children) ? v.children : []
ChildList(v) == IF v.ckind = "list" THEN v.kids ELSE << >>

RECURSIVE NodesOf(_)
\* every VNode of the tree rooted at v, v first
NodesOf(v) ==
  IF v = Null THEN {}
  ELSE {v} \cup UNION { NodesOf(ChildList(v)[i]) : i \in 1..Len(ChildList(v)) }

IdsOf(v) == { n.id : n \in NodesOf(v) }

----------------------------------------------------------------------------
(* diff: core/diff.ts *)

\* the names `for (key in props)` visits: the props and the hooks entry
PropNames == PropKeys \o << "hooks" >>

\* props[k] of a node; the hooks entry of a node that declares a hook is an
\* object of its own, made by the h() call that made the node
PropOf(v, k) ==
  IF k # "hooks" THEN v.props[k]
  ELSE IF v.hooks = NoHooks THEN Absent
  ELSE "hooks@" \o ToString(v.id)

RECURSIVE SetProps_hooks(_, _, _)
\* SetProps without `if (key === 'hooks') continue`
SetProps_hooks(prev, next, i) ==
  IF i > Len(PropNames) THEN << >>
  ELSE LET k == PropNames[i] IN
       (IF PropOf(next, k) # Absent /\ PropOf(next, k) # PropOf(prev, k)
          THEN << [type |-> "SET_PROP", vnode |-> prev, key |-> k,
                   value |-> PropOf(next, k)] >>
          ELSE << >>)
       \o SetProps_hooks(prev, next, i + 1)

\* for (key in newProps) { if (key === 'hooks') continue;
\*   if (newProps[key] !== oldProps[key]) SET_PROP }
RECURSIVE SetProps(_, _, _)
SetProps(prev, next, i) ==
  IF i > Len(PropNames) THEN << >>
  ELSE LET k == PropNames[i] IN
       (IF /\ k # "hooks"
           /\ PropOf(next, k) # Absent
           /\ PropOf(next, k) # PropOf(prev, k)
          THEN << [type |-> "SET_PROP", vnode |-> prev, key |-> k,
                   value |-> PropOf(next, k)] >>
          ELSE << >>)
       \o SetProps(prev, next, i + 1)

RECURSIVE RemoveProps_changed(_, _, _)
\* RemoveProps with `oldProps[key] !== newProps[key]` for `!(key in newProps)`
RemoveProps_changed(prev, next, i) ==
  IF i > Len(PropNames) THEN << >>
  ELSE LET k == PropNames[i] IN
       (IF /\ k # "hooks"
           /\ PropOf(prev, k) # Absent
           /\ PropOf(next, k) # PropOf(prev, k)
          THEN << [type |-> "REMOVE_PROP", vnode |-> prev, key |-> k] >>
          ELSE << >>)
       \o RemoveProps_changed(prev, next, i + 1)

\* for (key in oldProps) { if (key === 'hooks') continue;
\*   if (!(key in newProps)) REMOVE_PROP }
RECURSIVE RemoveProps(_, _, _)
RemoveProps(prev, next, i) ==
  IF i > Len(PropNames) THEN << >>
  ELSE LET k == PropNames[i] IN
       (IF /\ k # "hooks"
           /\ PropOf(prev, k) # Absent
           /\ PropOf(next, k) = Absent
          THEN << [type |-> "REMOVE_PROP", vnode |-> prev, key |-> k] >>
          ELSE << >>)
       \o RemoveProps(prev, next, i + 1)

\* hasKeys that looks at the next list alone
hasKeys_newOnly(oldChildren, newChildren) ==
  \E i \in 1..Len(newChildren) : newChildren[i].key # NoKey

\* oldChildren.some(c => c.key != null) || newChildren.some(c => c.key != null)
hasKeys(oldChildren, newChildren) ==
  \/ \E i \in 1..Len(oldChildren) : oldChildren[i].key # NoKey
  \/ \E i \in 1..Len(newChildren) : newChildren[i].key # NoKey

\* oldKeyMap.has(key)
OldKeyHas(oldChildren, key) ==
  \E i \in 1..Len(oldChildren) : oldChildren[i].key = key

\* oldKeyMap.get(key): Map.set in list order, so the last child with the key
OldKeyGet(oldChildren, key) ==
  LET last == CHOOSE i \in 1..Len(oldChildren) :
                /\ oldChildren[i].key = key
                /\ \A j \in (i+1)..Len(oldChildren) : oldChildren[j].key # key
  IN oldChildren[last]

\* OldIndexGet for an oldIndexMap filled with 1-based positions
OldIndexGet_onebased(oldChildren, child) ==
  CHOOSE i \in 1..Len(oldChildren) :
    /\ oldChildren[i].id = child.id
    /\ \A j \in (i+1)..Len(oldChildren) : oldChildren[j].id # child.id

\* oldIndexMap.get(child): Map<VNode, number>, the last index holding the object
OldIndexGet(oldChildren, child) ==
  LET last == CHOOSE i \in 1..Len(oldChildren) :
                /\ oldChildren[i].id = child.id
                /\ \A j \in (i+1)..Len(oldChildren) : oldChildren[j].id # child.id
  IN last - 1

\* UsedOld for a loop that never records the old child it matched
UsedOld_none(oldChildren, newChildren) == {}

\* usedOld after the newChildren loop
UsedOld(oldChildren, newChildren) ==
  { OldKeyGet(oldChildren, newChildren[i].key).id :
      i \in { j \in 1..Len(newChildren) :
                /\ newChildren[j].key # NoKey
                /\ OldKeyHas(oldChildren, newChildren[j].key) } }

RECURSIVE diffNonNull(_, _)

\* KeyedChild without the type check: a key match always reuses the old child
KeyedChild_reuse(prev, oldChildren, newChild, i) ==
  IF newChild.key # NoKey /\ OldKeyHas(oldChildren, newChild.key)
  THEN LET oldChild == OldKeyGet(oldChildren, newChild.key)
           oldIndex == OldIndexGet(oldChildren, oldChild)
       IN diffNonNull(oldChild, newChild)
          \o (IF oldIndex # i
              THEN << [type |-> "MOVE", parent |-> prev, vnode |-> oldChild,
                       from |-> oldIndex, to |-> i] >>
              ELSE << >>)
  ELSE << [type |-> "INSERT", parent |-> prev, vnode |-> newChild, index |-> i] >>

\* the body of newChildren.forEach((newChild, newIndex) => ...), newIndex = i
KeyedChild(prev, oldChildren, newChild, i) ==
  IF newChild.key # NoKey /\ OldKeyHas(oldChildren, newChild.key)
  THEN LET oldChild == OldKeyGet(oldChildren, newChild.key)
           oldIndex == OldIndexGet(oldChildren, oldChild)
       IN IF oldChild.type # newChild.type
          THEN << [type |-> "REMOVE", parent |-> prev, vnode |-> oldChild],
                  [type |-> "INSERT", parent |-> prev, vnode |-> newChild,
                   index |-> i] >>
          ELSE diffNonNull(oldChild, newChild)
               \o (IF oldIndex # i
                   THEN << [type |-> "MOVE", parent |-> prev, vnode |-> oldChild,
                            from |-> oldIndex, to |-> i] >>
                   ELSE << >>)
  ELSE << [type |-> "INSERT", parent |-> prev, vnode |-> newChild, index |-> i] >>

RECURSIVE KeyedNew(_, _, _, _)
\* newChildren.forEach(...), from 0-based index i on
KeyedNew(prev, oldChildren, newChildren, i) ==
  IF i >= Len(newChildren) THEN << >>
  ELSE KeyedChild(prev, oldChildren, newChildren[i + 1], i)
       \o KeyedNew(prev, oldChildren, newChildren, i + 1)

RECURSIVE KeyedUnused(_, _, _, _)
\* oldChildren.forEach(oldChild => if (!usedOld.has(oldChild)) REMOVE)
KeyedUnused(prev, oldChildren, used, i) ==
  IF i > Len(oldChildren) THEN << >>
  ELSE (IF oldChildren[i].id \notin used
        THEN << [type |-> "REMOVE", parent |-> prev, vnode |-> oldChildren[i]] >>
        ELSE << >>)
       \o KeyedUnused(prev, oldChildren, used, i + 1)

\* IndexChild that compares a pair of two types instead of replacing it
IndexChild_noTypeCheck(prev, oldChildren, newChildren, i) ==
  IF i >= Len(oldChildren)
  THEN << [type |-> "INSERT", parent |-> prev, vnode |-> newChildren[i + 1],
           index |-> i] >>
  ELSE IF i >= Len(newChildren)
  THEN << [type |-> "REMOVE", parent |-> prev, vnode |-> oldChildren[i + 1]] >>
  ELSE diffNonNull(oldChildren[i + 1], newChildren[i + 1])

\* IndexChild that emits no REMOVE for a position present only in previous
IndexChild_keepExtra(prev, oldChildren, newChildren, i) ==
  IF i >= Len(oldChildren)
  THEN << [type |-> "INSERT", parent |-> prev, vnode |-> newChildren[i + 1],
           index |-> i] >>
  ELSE IF i >= Len(newChildren)
  THEN << >>
  ELSE IF oldChildren[i + 1].type # newChildren[i + 1].type
  THEN << [type |-> "REMOVE", parent |-> prev, vnode |-> oldChildren[i + 1]],
          [type |-> "INSERT", parent |-> prev, vnode |-> newChildren[i + 1],
           index |-> i] >>
  ELSE diffNonNull(oldChildren[i + 1], newChildren[i + 1])

\* the body of the index diff's loop at 0-based index i
IndexChild(prev, oldChildren, newChildren, i) ==
  IF i >= Len(oldChildren)
  THEN << [type |-> "INSERT", parent |-> prev, vnode |-> newChildren[i + 1],
           index |-> i] >>
  ELSE IF i >= Len(newChildren)
  THEN << [type |-> "REMOVE", parent |-> prev, vnode |-> oldChildren[i + 1]] >>
  ELSE IF oldChildren[i + 1].type # newChildren[i + 1].type
  THEN << [type |-> "REMOVE", parent |-> prev, vnode |-> oldChildren[i + 1]],
          [type |-> "INSERT", parent |-> prev, vnode |-> newChildren[i + 1],
           index |-> i] >>
  ELSE diffNonNull(oldChildren[i + 1], newChildren[i + 1])

RECURSIVE IndexDiff(_, _, _, _)
\* for (let i = 0; i < max; i++) ..., from 0-based index i on
IndexDiff(prev, oldChildren, newChildren, i) ==
  LET max == IF Len(oldChildren) >= Len(newChildren)
             THEN Len(oldChildren) ELSE Len(newChildren)
  IN IF i >= max THEN << >>
     ELSE IndexChild(prev, oldChildren, newChildren, i)
          \o IndexDiff(prev, oldChildren, newChildren, i + 1)

\* the children section of diffNonNull
ChildPatches(prev, next) ==
  LET oldChildren == ChildList(prev)
      newChildren == ChildList(next)
  IN IF hasKeys(oldChildren, newChildren)
     THEN KeyedNew(prev, oldChildren, newChildren, 0)
          \o KeyedUnused(prev, oldChildren,
                         UsedOld(oldChildren, newChildren), 1)
     ELSE IndexDiff(prev, oldChildren, newChildren, 0)

\* diffNonNull that emits the node's UPDATE before its other patches
diffNonNull_updateFirst(prev, next) ==
  IF prev.type # next.type
  THEN << [type |-> "REPLACE", vnode |-> next] >>
  ELSE IF prev.ckind = "text" /\ next.ckind = "text"
  THEN << [type |-> "UPDATE", oldVNode |-> prev, newVNode |-> next] >>
       \o (IF prev.text # next.text
           THEN << [type |-> "UPDATE_TEXT", vnode |-> prev, value |-> next.text] >>
           ELSE << >>)
  ELSE << [type |-> "UPDATE", oldVNode |-> prev, newVNode |-> next] >>
       \o SetProps(prev, next, 1)
       \o RemoveProps(prev, next, 1)
       \o ChildPatches(prev, next)

\* diffNonNull whose text fast path emits UPDATE_TEXT without comparing texts
diffNonNull_textAlways(prev, next) ==
  IF prev.type # next.type
  THEN << [type |-> "REPLACE", vnode |-> next] >>
  ELSE IF prev.ckind = "text" /\ next.ckind = "text"
  THEN << [type |-> "UPDATE_TEXT", vnode |-> prev, value |-> next.text],
          [type |-> "UPDATE", oldVNode |-> prev, newVNode |-> next] >>
  ELSE SetProps(prev, next, 1)
       \o RemoveProps(prev, next, 1)
       \o ChildPatches(prev, next)
       \o << [type |-> "UPDATE", oldVNode |-> prev, newVNode |-> next] >>

\* diffNonNull whose text fast path diffs the props before it returns
diffNonNull_textProps(prev, next) ==
  IF prev.type # next.type
  THEN << [type |-> "REPLACE", vnode |-> next] >>
  ELSE IF prev.ckind = "text" /\ next.ckind = "text"
  THEN (IF prev.text # next.text
        THEN << [type |-> "UPDATE_TEXT", vnode |-> prev, value |-> next.text] >>
        ELSE << >>)
       \o SetProps(prev, next, 1)
       \o RemoveProps(prev, next, 1)
       \o << [type |-> "UPDATE", oldVNode |-> prev, newVNode |-> next] >>
  ELSE SetProps(prev, next, 1)
       \o RemoveProps(prev, next, 1)
       \o ChildPatches(prev, next)
       \o << [type |-> "UPDATE", oldVNode |-> prev, newVNode |-> next] >>

diffNonNull(prev, next) ==
  IF prev.type # next.type
  THEN << [type |-> "REPLACE", vnode |-> next] >>
  ELSE IF prev.ckind = "text" /\ next.ckind = "text"
  THEN (IF prev.text # next.text
        THEN << [type |-> "UPDATE_TEXT", vnode |-> prev, value |-> next.text] >>
        ELSE << >>)
       \o << [type |-> "UPDATE", oldVNode |-> prev, newVNode |-> next] >>
  ELSE SetProps(prev, next, 1)
       \o RemoveProps(prev, next, 1)
       \o ChildPatches(prev, next)
       \o << [type |-> "UPDATE", oldVNode |-> prev, newVNode |-> next] >>

\* diff that returns no patch when the next tree is null
diff_noUnmount(oldVNode, newVNode) ==
  IF oldVNode = Null /\ newVNode # Null
  THEN << [type |-> "REPLACE", vnode |-> newVNode] >>
  ELSE IF newVNode = Null
  THEN << >>
  ELSE diffNonNull(oldVNode, newVNode)

diff(oldVNode, newVNode) ==
  IF oldVNode = Null /\ newVNode # Null
  THEN << [type |-> "REPLACE", vnode |-> newVNode] >>
  ELSE IF oldVNode # Null /\ newVNode = Null
  THEN << [type |-> "REPLACE", vnode |-> Null] >>
  ELSE IF oldVNode = Null /\ newVNode = Null
  THEN << >>
  ELSE diffNonNull(oldVNode, newVNode)

----------------------------------------------------------------------------
(* The trees a caller builds with h(): core/h.ts, core/vnode.ts *)

\* raw child arguments of h(): null, undefined, a boolean, a number, a string,
\* a VNode, or an array of raw children
RawNull == [k |-> "null"]
RawUndefined == [k |-> "undefined"]
RawBool(b) == [k |-> "boolean", b |-> b]
RawNum(n) == [k |-> "number", n |-> n]
RawStr(str) == [k |-> "string", s |-> str]
RawNode(v) == [k |-> "vnode", vnode |-> v]
RawArr(items) == [k |-> "array", items |-> items]

Digits == << "0", "1", "2", "3", "4", "5", "6", "7", "8", "9" >>

RECURSIVE NatToString(_)
\* String(n) for a natural number n
NatToString(n) ==
  IF n < 10 THEN Digits[n + 1]
  ELSE NatToString(n \div 10) \o Digits[(n % 10) + 1]

\* String(child) for a number or a string
String(child) ==
  IF child.k = "number" THEN NatToString(child.n) ELSE child.s

RECURSIVE walk(_, _)
RECURSIVE walkAll(_, _, _)

\* walk that does not descend into arrays
walk_shallow(acc, child) ==
  IF child.k \in {"null", "undefined", "boolean", "array"} THEN acc
  ELSE IF child.k \in {"number", "string"}
  THEN [acc EXCEPT !.text = (IF acc.hasText THEN acc.text ELSE "")
                             \o String(child),
                   !.hasText = TRUE]
  ELSE [acc EXCEPT !.elements = Append(@, child.vnode)]

\* normalizeChildren's walk(child) on the accumulators elements and text
\* (hasText: text !== null)
walk(acc, child) ==
  IF child.k \in {"null", "undefined", "boolean"} THEN acc
  ELSE IF child.k = "array" THEN walkAll(acc, child.items, 1)
  ELSE IF child.k \in {"number", "string"}
  THEN [acc EXCEPT !.text = (IF acc.hasText THEN acc.text ELSE "")
                             \o String(child),
                   !.hasText = TRUE]
  ELSE [acc EXCEPT !.elements = Append(@, child.vnode)]

\* input.forEach(walk), from index i on
walkAll(acc, input, i) ==
  IF i > Len(input) THEN acc
  ELSE walkAll(walk(acc, input[i]), input, i + 1)

\* normalizeChildren without the mixed-children check: elements win over text
normalizeChildren_elementsWin(input) ==
  LET acc == walkAll([elements |-> << >>, text |-> "", hasText |-> FALSE],
                     input, 1)
  IN IF Len(acc.elements) > 0
     THEN [kind |-> "list", text |-> "", kids |-> acc.elements]
     ELSE IF acc.hasText
     THEN [kind |-> "text", text |-> acc.text, kids |-> << >>]
     ELSE [kind |-> "none", text |-> "", kids |-> << >>]

\* normalizeChildren(input): the children value, or the Error thrown
normalizeChildren(input) ==
  LET acc == walkAll([elements |-> << >>, text |-> "", hasText |-> FALSE],
                     input, 1)
  IN IF Len(acc.elements) > 0 /\ acc.hasText
     THEN [kind |-> "throw", text |-> "", kids |-> << >>]
     ELSE IF Len(acc.elements) > 0
     THEN [kind |-> "list", text |-> "", kids |-> acc.elements]
     ELSE IF acc.hasText
     THEN [kind |-> "text", text |-> acc.text, kids |-> << >>]
     ELSE [kind |-> "none", text |-> "", kids |-> << >>]

\* h(type, props, ...rawChildren) when vnodeId = id: the VNode returned, or
\* the Error that normalizeChildren threw
hCall(type, props, rawChildren, id) ==
  LET key == IF props.key # Absent THEN props.key ELSE NoKey
      children == normalizeChildren(rawChildren)
  IN IF children.kind = "throw"
     THEN [kind |-> "throw", vnode |-> Null]
     ELSE [kind |-> "return",
           vnode |-> createVNode(id, type, props, NoHooks, children.kind,
                                 children.text, children.kids, key)]

\* the text a generated child with the given key shows
TextOfKey(key) ==
  CASE key = "a" -> "A" [] key = "b" -> "B" [] key = "c" -> "C" [] OTHER -> "X"

\* h(type, null, text): one node with text children
hText(type, text, base) ==
  createVNode(base, type, NoProps, NoHooks, "text", text, << >>, NoKey)

\* the texts of the grandchildren a generated child carries
SubTexts == << "G", "H" >>

\* number of children of a generated child: `sub` is "text" (text children),
\* "none" (no children), "one" or "two" (a list of that many span elements)
SubCount(c) == CASE c.sub = "one" -> 1 [] c.sub = "two" -> 2 [] OTHER -> 0

\* h('span', {hooks: {create}}, text): a child of a generated child, with a
\* create hook when the family asks for one
hSub(text, create, id) ==
  createVNode(id, "span", NoProps, [NoHooks EXCEPT !.create = create],
              "text", text, << >>, NoKey)

\* h(type, {key, class, hooks: {create, update, remove}}, children): one child;
\* its own children are constructed first, then the child; the props object
\* keeps the key entry
hChild(c, id) ==
  createVNode(id + SubCount(c), c.type,
              [key |-> IF c.key # NoKey THEN c.key ELSE Absent,
               class |-> c.class],
              [create |-> c.create, update |-> c.update, remove |-> c.remove],
              IF c.sub = "text" THEN "text"
              ELSE IF SubCount(c) > 0 THEN "list" ELSE "none",
              IF c.sub # "text" THEN ""
              ELSE IF c.text = "#key" THEN TextOfKey(c.key) ELSE c.text,
              AsSeq([j \in 1..SubCount(c) |->
                       hSub(SubTexts[j], c.subcreate, id + j - 1)]),
              c.key)

RECURSIVE ConstructedBy(_, _)
\* number of VNodes the first n children of the list construct
ConstructedBy(cs, n) ==
  IF n = 0 THEN 0 ELSE ConstructedBy(cs, n - 1) + SubCount(cs[n]) + 1

\* h(type, null, [children...]): the children are constructed first, left to
\* right, then the parent, each taking the next __id; normalizeChildren
\* returns null for an empty list
h(type, cs, base) ==
  createVNode(base + ConstructedBy(cs, Len(cs)), type, NoProps, NoHooks,
              IF Len(cs) > 0 THEN "list" ELSE "none", "",
              AsSeq([i \in 1..Len(cs) |->
                       hChild(cs[i], base + ConstructedBy(cs, i - 1))]),
              NoKey)

\* a counter advanced once per tree instead of once per VNode
Constructed_one(cs) == 1

\* number of VNodes h(type, cs, base) constructs
Constructed(cs) == ConstructedBy(cs, Len(cs)) + 1

SeqsUpTo(S, n) == UNION { [1..k -> S] : k \in 0..n }

\* no two children of the list share a non-null key
DistinctKeys(l) ==
  \A i, j \in 1..Len(l) : (i # j /\ l[i].key = l[j].key) => l[i].key = NoKey

\* what a family has unless it says otherwise: no create and update hooks, no
\* class, text children (so no hooks below a child), lists of up to MaxKids
\* children, MaxCalls calls, roots of type div, no update(null), and
\* every tree built from new child VNodes
Plain ==
  [creates |-> {"none"}, updates |-> {"none"}, classes |-> {Absent},
   subs |-> {"text"}, subcreates |-> {"none"}, len |-> MaxKids,
   steps |-> MaxCalls, reuse |-> FALSE, roottypes |-> {"div"},
   nulls |-> FALSE]

\* The families of trees a behaviour's caller draws from: the child types,
\* keys, remove hooks and texts used ("#key": the text of the key), the texts
\* a root with text children shows, and whether keys may collide.
Families ==
  { f @@ Plain : f \in { [name |-> "keyed", types |-> {"p"}, keys |-> {"a", "b", "c"},
     removes |-> {"none"}, texts |-> {"#key"}, roots |-> {},
     dups |-> FALSE],
    [name |-> "hooks", types |-> {"p"}, keys |-> {"a", "b"},
     removes |-> {"none", "defer"}, texts |-> {"#key"},
     roots |-> {"Hello", "World"}, dups |-> FALSE],
    [name |-> "keyedtypes", types |-> {"p", "span"}, keys |-> {"a", "b"},
     removes |-> {"none"}, texts |-> {"#key"}, roots |-> {},
     dups |-> FALSE],
    [name |-> "unkeyed", types |-> {"p", "span"}, keys |-> {NoKey},
     removes |-> {"none"}, texts |-> {"#key"}, roots |-> {},
     dups |-> FALSE],
    [name |-> "mixed", types |-> {"p"}, keys |-> {"a", NoKey},
     removes |-> {"none"}, texts |-> {"#key"}, roots |-> {},
     dups |-> FALSE],
    [name |-> "collide", types |-> {"p"}, keys |-> {"a", "b"},
     removes |-> {"none"}, texts |-> {"#key"}, roots |-> {},
     dups |-> TRUE],
    [name |-> "texts", types |-> {"p"}, keys |-> {NoKey},
     removes |-> {"none"}, texts |-> {"Hello", "World"},
     roots |-> {"Hello", "World"}, dups |-> FALSE],
    [name |-> "keyedtexts", types |-> {"p"}, keys |-> {"a", "b"},
     removes |-> {"none"}, texts |-> {"Hello", "World"}, roots |-> {},
     dups |-> FALSE] } }

\* Families whose children carry a class, create / update hooks, hooks that
\* throw, or children of their own; `len` caps their sibling lists, `steps`
\* the calls made on the Root, and `reuse` lets the caller put child VNodes of
\* the current tree into the next tree.
RichFamilies ==
  { f @@ Plain : f \in {
    [name |-> "props", types |-> {"p"}, keys |-> {NoKey},
     removes |-> {"none"}, texts |-> {"#key"}, roots |-> {}, dups |-> FALSE,
     classes |-> {Absent, "x", "y"}, subs |-> {"none", "text", "one"},
     len |-> 2, steps |-> 1],
    [name |-> "nested", types |-> {"p"}, keys |-> {"a"},
     removes |-> {"none"}, texts |-> {"#key"}, roots |-> {}, dups |-> TRUE,
     classes |-> {Absent, "x"}, subs |-> {"none", "one", "two"},
     len |-> 2, steps |-> 1],
    [name |-> "retype", types |-> {"p", "span"}, keys |-> {"a"},
     removes |-> {"none"}, texts |-> {"Hello", "World"}, roots |-> {},
     dups |-> TRUE, len |-> 2, steps |-> 1],
    [name |-> "called", types |-> {"p"}, keys |-> {"a", "b"},
     removes |-> {"none"}, texts |-> {"#key"}, roots |-> {}, dups |-> FALSE,
     creates |-> {"none", "call"}, updates |-> {"none", "call"}, steps |-> 1],
    [name |-> "hookprops", types |-> {"p"}, keys |-> {NoKey},
     removes |-> {"none"}, texts |-> {"#key"}, roots |-> {}, dups |-> FALSE,
     updates |-> {"none", "call"}, classes |-> {Absent, "x"},
     subs |-> {"none"}, len |-> 2, steps |-> 1],
    [name |-> "reuse", types |-> {"p"}, keys |-> {"a", "b", "c"},
     removes |-> {"none"}, texts |-> {"#key"}, roots |-> {}, dups |-> FALSE,
     updates |-> {"none", "call"}, steps |-> 1, reuse |-> TRUE],
    [name |-> "collidehooks", types |-> {"p"}, keys |-> {"a"},
     removes |-> {"none"}, texts |-> {"#key"}, roots |-> {}, dups |-> TRUE,
     updates |-> {"none", "call"}, len |-> 2, steps |-> 1],
    [name |-> "throws", types |-> {"p"}, keys |-> {"a", "b"},
     removes |-> {"none"}, texts |-> {"#key"}, roots |-> {}, dups |-> FALSE,
     creates |-> {"none", "throw"}, updates |-> {"none", "throw"},
     steps |-> 1],
    [name |-> "removethrows", types |-> {"p"}, keys |-> {"a", "b"},
     removes |-> {"none", "defer", "throw"}, texts |-> {"#key"}, roots |-> {},
     dups |-> FALSE, steps |-> 1],
    [name |-> "textprops", types |-> {"p"}, keys |-> {NoKey},
     removes |-> {"none"}, texts |-> {"Hello", "World"},
     roots |-> {"Hello", "World"}, dups |-> FALSE,
     classes |-> {Absent, "x", "y"}, len |-> 2, steps |-> 1],
    [name |-> "createnested", types |-> {"p"}, keys |-> {NoKey},
     removes |-> {"none"}, texts |-> {"#key"}, roots |-> {}, dups |-> FALSE,
     creates |-> {"none", "call"}, subcreates |-> {"none", "call"},
     subs |-> {"text", "one", "two"}, len |-> 2, steps |-> 1],
    [name |-> "reroot", types |-> {"p"}, keys |-> {"a", "b"},
     removes |-> {"none", "defer"}, texts |-> {"#key"}, roots |-> {},
     dups |-> FALSE, len |-> 2, roottypes |-> {"div", "section"},
     nulls |-> TRUE, reuse |-> TRUE] } }

ChildShapes(f) ==
  { [type |-> t, key |-> k, remove |-> r, text |-> x, create |-> c,
     update |-> u, class |-> cl, sub |-> sb, subcreate |-> sc] :
      t \in f.types, k \in f.keys, r \in f.removes, x \in f.texts,
      c \in f.creates, u \in f.updates, cl \in f.classes, sb \in f.subs,
      sc \in f.subcreates }

\* the sibling lists of family f
Lists(f) ==
  { l \in SeqsUpTo(ChildShapes(f), IF f.len < MaxKids THEN f.len ELSE MaxKids) :
      f.dups \/ DistinctKeys(l) }

\* the trees of family f: a root over a sibling list, or a root with text
Trees(f) ==
  { [cs |-> l, text |-> ""] : l \in Lists(f) }
  \cup { [cs |-> << >>, text |-> x] : x \in f.roots }

\* the call of h() that builds the tree tr with a root of the given type
hTree(type, tr, base) ==
  IF tr.text # "" THEN hText(type, tr.text, base) ELSE h(type, tr.cs, base)

----------------------------------------------------------------------------
(* The DOM host adapter: platforms/dom/host.ts over the DOM's own rules *)

\* `Node | null`: no node
NullNode == 0

\* the container element given to mount()
container == 1

InSeq(x, seq) == \E i \in 1..Len(seq) : seq[i] = x

IndexOf(seq, x) == CHOOSE i \in 1..Len(seq) : seq[i] = x

RemoveFrom(seq, x) == SelectSeq(seq, LAMBDA y : y # x)

\* seq with x placed so that `before` elements precede it
InsertAt(seq, before, x) ==
  SubSeq(seq, 1, before) \o << x >> \o SubSeq(seq, before + 1, Len(seq))

\* node.parentNode
parentNode(s, n) ==
  IF \E p \in 1..Len(s.childNodes) : InSeq(n, s.childNodes[p])
  THEN CHOOSE p \in 1..Len(s.childNodes) : InSeq(n, s.childNodes[p])
  ELSE NullNode

\* node.nextSibling
nextSibling(s, n) ==
  LET p == parentNode(s, n) IN
  IF p = NullNode THEN NullNode
  ELSE LET i == IndexOf(s.childNodes[p], n) IN
       IF i < Len(s.childNodes[p]) THEN s.childNodes[p][i + 1] ELSE NullNode

\* document.createElement / document.createTextNode: a new detached node
NewNode(s, tag, text) ==
  [s EXCEPT !.tagName = Append(@, tag),
            !.data = Append(@, text),
            !.attrs = Append(@, NoProps),
            !.childNodes = Append(@, << >>)]

\* domHost.setProp on an element: setAttribute(key, String(value))
hostSetProp(s, n, key, value) ==
  IF s.tagName[n] = "#text" THEN s
  ELSE [s EXCEPT !.attrs[n][key] = value,
                 !.hostLog = Append(@, [op |-> "setProp", node |-> n, key |-> key])]

\* domHost.removeProp on an element: removeAttribute(key)
hostRemoveProp(s, n, key) ==
  IF s.tagName[n] = "#text" THEN s
  ELSE [s EXCEPT !.attrs[n][key] = Absent,
                 !.hostLog = Append(@, [op |-> "removeProp", node |-> n, key |-> key])]

\* domHost.insert: parent.insertBefore(child, parent.childNodes[index] ?? null).
\* insertBefore takes the child out of the parent it has, and when the
\* reference node is the child itself it uses the child's next sibling.
hostInsert(s, parent, child, index) ==
  IF s.tagName[parent] = "#text" THEN s
  ELSE LET kids == s.childNodes[parent]
           refNode == IF index < Len(kids) THEN kids[index + 1] ELSE NullNode
           ref == IF refNode = child THEN nextSibling(s, child) ELSE refNode
           out == AsSeq([q \in 1..Len(s.childNodes) |->
                           RemoveFrom(s.childNodes[q], child)])
           before == IF ref = NullNode THEN Len(out[parent])
                     ELSE IndexOf(out[parent], ref) - 1
       IN [s EXCEPT !.childNodes =
             [out EXCEPT ![parent] = InsertAt(out[parent], before, child)]]

\* domHost.remove: node.parentNode?.removeChild(node); `by` names the caller
hostRemove(s, n, by) ==
  LET p == parentNode(s, n)
      logged == [s EXCEPT !.hostLog =
                   Append(@, [op |-> "remove", node |-> n, by |-> by])]
  IN IF p = NullNode THEN logged
     ELSE [logged EXCEPT !.childNodes[p] = RemoveFrom(@, n)]

\* element.textContent = value: every child is removed, and a non-empty value
\* becomes one new Text node
setTextContent(s, n, value) ==
  LET cleared == [s EXCEPT !.childNodes[n] = << >>,
                           !.hostLog = Append(@, [op |-> "textContent",
                                                  node |-> n])] IN
  IF value = "" THEN cleared
  ELSE LET made == NewNode(cleared, "#text", value)
       IN [made EXCEPT !.childNodes[n] = << Len(made.tagName) >>]

RECURSIVE textContent(_, _)
RECURSIVE ConcatText(_, _, _)
\* node.textContent: the text of the node's descendants, in tree order
textContent(s, n) ==
  IF s.tagName[n] = "#text" THEN s.data[n]
  ELSE ConcatText(s, s.childNodes[n], 1)

ConcatText(s, kids, i) ==
  IF i > Len(kids) THEN ""
  ELSE textContent(s, kids[i]) \o ConcatText(s, kids, i + 1)

----------------------------------------------------------------------------
(* The renderer: renderer/createRenderer.ts, mount() and its closures *)

MapSet(m, k, v) == [x \in DOMAIN m \cup {k} |-> IF x = k THEN v ELSE m[x]]

MapDelete(m, k) == [x \in DOMAIN m \ {k} |-> m[x]]

EmptyMap == [x \in {} |-> NullNode]

\* nodeMap.get(id), NullNode for undefined
MapGet(m, k) == IF k \in DOMAIN m THEN m[k] ELSE NullNode

\* the renderer and host state the closures of mount() work on; thrown: an
\* exception is propagating (none when a call begins)
St ==
  [currentVNode |-> currentVNode, rootNode |-> rootNode, nodeMap |-> nodeMap,
   pending |-> pending, childNodes |-> childNodes, tagName |-> tagName,
   data |-> data, attrs |-> attrs, hostLog |-> hostLog, thrown |-> FALSE]

RECURSIVE createNode(_, _)
RECURSIVE createChildren(_, _, _, _)
RECURSIVE createProps(_, _, _, _)

\* for (key in v.props) if (key !== 'hooks') host.setProp(node, key, v.props[key])
createProps(s, v, node, i) ==
  IF i > Len(PropNames) THEN s
  ELSE createProps(IF PropNames[i] # "hooks" /\ PropOf(v, PropNames[i]) # Absent
                   THEN hostSetProp(s, node, PropNames[i],
                                    PropOf(v, PropNames[i]))
                   ELSE s,
                   v, node, i + 1)

\* host.insert(parent, createNode(...), index) for the result r of createNode,
\* which is not reached when createNode threw
insertCreated(r, parent, index) ==
  IF r.s.thrown THEN r.s ELSE hostInsert(r.s, parent, r.node, index)

RECURSIVE createChildren_front(_, _, _, _)
\* createChildren that inserts every child at index 0
createChildren_front(s, v, node, i) ==
  IF i >= Len(v.kids) \/ s.thrown THEN s
  ELSE createChildren_front(
         insertCreated(createNode(s, v.kids[i + 1]), node, 0), v, node, i + 1)

\* v.children.forEach((child, index) => host.insert(node, createNode(child), index))
createChildren(s, v, node, i) ==
  IF i >= Len(v.kids) \/ s.thrown THEN s
  ELSE createChildren(
         insertCreated(createNode(s, v.kids[i + 1]), node, i), v, node, i + 1)

\* the children section of createNode, on the state with the element made
\* and its props set: one text node, or the child list, or nothing
createContent(s, v, node) ==
  IF v.ckind = "text"
  THEN hostInsert(NewNode(s, "#text", v.text), node, Len(s.tagName) + 1, 0)
  ELSE IF v.ckind = "list"
  THEN createChildren(s, v, node, 0)
  ELSE s

\* v.props?.hooks?.create?.(v, node), on the state with the node mapped
callCreate(s, v, node) ==
  IF v.hooks.create # "none"
  THEN [s EXCEPT !.hostLog =
          Append(@, [op |-> "create", node |-> node, id |-> v.id,
                     mapped |-> MapGet(s.nodeMap, v.id) = node,
                     attached |-> parentNode(s, node) # NullNode]),
                 !.thrown = (v.hooks.create = "throw")]
  ELSE s

\* finishNode that invokes the create hook before nodeMap.set
finishNode_hookBeforeSet(s, v, node) ==
  IF s.thrown THEN s
  ELSE [callCreate(s, v, node) EXCEPT !.nodeMap = MapSet(@, v.id, node)]

\* the end of createNode, on the state with the children made: nodeMap.set,
\* the create hook, return node; not reached when a child's creation threw
finishNode(s, v, node) ==
  IF s.thrown THEN s
  ELSE callCreate([s EXCEPT !.nodeMap = MapSet(@, v.id, node)], v, node)

\* createNode(vnode, _parent): the new state and the node created; a create
\* hook that throws ("throw") ends the call after nodeMap.set
createNode(s, v) ==
  [s |-> finishNode(
           createContent(
             createProps(NewNode(s, v.type, ""), v, Len(s.tagName) + 1, 1),
             v, Len(s.tagName) + 1),
           v, Len(s.tagName) + 1),
   node |-> Len(s.tagName) + 1]

\* finalizeRemoval without nodeMap.delete
finalizeRemoval_keepEntry(s, id, node) ==
  hostRemove(s, node, "finalizeRemoval")

\* finalizeRemoval with nodeMap.clear() in place of nodeMap.delete
finalizeRemoval_clearAll(s, id, node) ==
  [hostRemove(s, node, "finalizeRemoval") EXCEPT !.nodeMap = EmptyMap]

\* the closure finalizeRemoval of one REMOVE commit, run once
finalizeRemoval(s, id, node) ==
  [hostRemove(s, node, "finalizeRemoval") EXCEPT !.nodeMap = MapDelete(@, id)]

\* rootNode = createNode(patch.vnode); host.insert(container, rootNode, 0),
\* for the result r of createNode
insertRoot(r) ==
  IF r.s.thrown THEN r.s
  ELSE [hostInsert(r.s, container, r.node, 0) EXCEPT !.rootNode = r.node]

\* removeRoot without nodeMap.clear()
removeRoot_keepMap(s) ==
  IF s.rootNode # NullNode
  THEN [hostRemove(s, s.rootNode, "REPLACE") EXCEPT !.rootNode = NullNode]
  ELSE s

\* if (rootNode) { host.remove(rootNode); rootNode = null; nodeMap.clear() }
removeRoot(s) ==
  IF s.rootNode # NullNode
  THEN [hostRemove(s, s.rootNode, "REPLACE")
          EXCEPT !.rootNode = NullNode, !.nodeMap = EmptyMap]
  ELSE s

commitREPLACE(s, patch) ==
  IF patch.vnode # Null
  THEN insertRoot(createNode(removeRoot(s), patch.vnode))
  ELSE removeRoot(s)

commitUPDATE_TEXT(s, patch) ==
  LET node == MapGet(s.nodeMap, patch.vnode.id) IN
  IF node # NullNode THEN setTextContent(s, node, patch.value) ELSE s

commitSET_PROP(s, patch) ==
  LET node == MapGet(s.nodeMap, patch.vnode.id) IN
  IF node # NullNode THEN hostSetProp(s, node, patch.key, patch.value) ELSE s

commitREMOVE_PROP(s, patch) ==
  LET node == MapGet(s.nodeMap, patch.vnode.id) IN
  IF node # NullNode THEN hostRemoveProp(s, node, patch.key) ELSE s

\* INSERT that ignores patch.index and appends the new node
commitINSERT_atEnd(s, patch) ==
  LET parentN == MapGet(s.nodeMap, patch.parent.id) IN
  IF parentN = NullNode THEN s
  ELSE insertCreated(createNode(s, patch.vnode), parentN,
                     Len(s.childNodes[parentN]))

commitINSERT(s, patch) ==
  LET parentN == MapGet(s.nodeMap, patch.parent.id) IN
  IF parentN = NullNode THEN s
  ELSE insertCreated(createNode(s, patch.vnode), parentN, patch.index)

\* MOVE that re-inserts the node without detaching it first
commitMOVE_noDetach(s, patch) ==
  LET parentN == MapGet(s.nodeMap, patch.parent.id)
      childN == MapGet(s.nodeMap, patch.vnode.id)
  IN IF parentN = NullNode \/ childN = NullNode THEN s
     ELSE hostInsert(s, parentN, childN, patch.to)

commitMOVE(s, patch) ==
  LET parentN == MapGet(s.nodeMap, patch.parent.id)
      childN == MapGet(s.nodeMap, patch.vnode.id)
  IN IF parentN = NullNode \/ childN = NullNode THEN s
     ELSE hostInsert(hostRemove(s, childN, "MOVE"), parentN, childN, patch.to)

\* REMOVE that finalizes at once even when it hands the closure to a hook
commitREMOVE_eager(s, patch) ==
  LET v == patch.vnode
      node == MapGet(s.nodeMap, v.id)
      called == [finalizeRemoval(s, v.id, node) EXCEPT !.hostLog =
                   Append(@, [op |-> "removeHook", node |-> node, id |-> v.id,
                              parent |-> parentNode(s, node)])]
  IN IF node = NullNode THEN s
     ELSE IF v.hooks.remove = "none" THEN finalizeRemoval(s, v.id, node)
     ELSE [called EXCEPT !.pending =
             Append(@, [id |-> v.id, node |-> node, vnode |-> v,
                        calls |-> 0])]

\* REMOVE that hands the closure to the remove hook before it looks at the node
commitREMOVE_hookFirst(s, patch) ==
  LET v == patch.vnode
      node == MapGet(s.nodeMap, v.id)
      called == [s EXCEPT !.hostLog =
                   Append(@, [op |-> "removeHook", node |-> node, id |-> v.id,
                              parent |-> parentNode(s, node)])]
  IN IF v.hooks.remove = "throw" THEN [called EXCEPT !.thrown = TRUE]
     ELSE IF v.hooks.remove = "defer"
     THEN [called EXCEPT !.pending =
             Append(@, [id |-> v.id, node |-> node, vnode |-> v,
                        calls |-> 0])]
     ELSE IF node = NullNode THEN called
     ELSE finalizeRemoval(s, v.id, node)

\* REMOVE: a remove hook receives the closure finalizeRemoval and keeps it
\* ("defer") or throws before using it ("throw"); without a hook the closure
\* runs at once
commitREMOVE(s, patch) ==
  LET v == patch.vnode
      node == MapGet(s.nodeMap, v.id)
      called == [s EXCEPT !.hostLog =
                   Append(@, [op |-> "removeHook", node |-> node, id |-> v.id,
                              parent |-> parentNode(s, node)])]
  IN IF node = NullNode THEN s
     ELSE IF v.hooks.remove = "none" THEN finalizeRemoval(s, v.id, node)
     ELSE IF v.hooks.remove = "throw" THEN [called EXCEPT !.thrown = TRUE]
     ELSE [called EXCEPT !.pending =
             Append(@, [id |-> v.id, node |-> node, vnode |-> v,
                        calls |-> 0])]

\* UPDATE that runs the update hook before it looks the old node up
commitUPDATE_hookAlways(s, patch) ==
  LET node == MapGet(s.nodeMap, patch.oldVNode.id)
      hooked == IF patch.newVNode.hooks.update # "none"
                THEN [s EXCEPT !.hostLog =
                        Append(@, [op |-> "update", node |-> node,
                                   id |-> patch.newVNode.id,
                                   old |-> patch.oldVNode.id]),
                               !.thrown = (patch.newVNode.hooks.update = "throw")]
                ELSE s
  IN IF node = NullNode THEN hooked
     ELSE [hooked EXCEPT !.nodeMap =
             MapSet(MapDelete(@, patch.oldVNode.id), patch.newVNode.id, node)]

\* UPDATE that empties the identity map before it sets the new entry
commitUPDATE_only(s, patch) ==
  LET node == MapGet(s.nodeMap, patch.oldVNode.id) IN
  IF node = NullNode THEN s
  ELSE [s EXCEPT !.nodeMap = MapSet(EmptyMap, patch.newVNode.id, node)]

\* UPDATE that leaves the identity map keyed by the old __id
commitUPDATE_norekey(s, patch) == s

commitUPDATE(s, patch) ==
  LET node == MapGet(s.nodeMap, patch.oldVNode.id) IN
  IF node = NullNode THEN s
  ELSE LET rekeyed == [s EXCEPT !.nodeMap =
                         MapSet(MapDelete(@, patch.oldVNode.id),
                                patch.newVNode.id, node)]
       IN IF patch.newVNode.hooks.update # "none"
          THEN [rekeyed EXCEPT !.hostLog =
                  Append(@, [op |-> "update", node |-> node,
                             id |-> patch.newVNode.id,
                             old |-> patch.oldVNode.id]),
                               !.thrown = (patch.newVNode.hooks.update = "throw")]
          ELSE rekeyed

\* one iteration of commit's loop: switch (patch.type)
commitPatch(s, patch) ==
  CASE patch.type = "REPLACE" -> commitREPLACE(s, patch)
    [] patch.type = "UPDATE_TEXT" -> commitUPDATE_TEXT(s, patch)
    [] patch.type = "SET_PROP" -> commitSET_PROP(s, patch)
    [] patch.type = "REMOVE_PROP" -> commitREMOVE_PROP(s, patch)
    [] patch.type = "INSERT" -> commitINSERT(s, patch)
    [] patch.type = "MOVE" -> commitMOVE(s, patch)
    [] patch.type = "REMOVE" -> commitREMOVE(s, patch)
    [] patch.type = "UPDATE" -> commitUPDATE(s, patch)

RECURSIVE commitFrom(_, _, _)
commitFrom(s, patches, i) ==
  IF i > Len(patches) \/ s.thrown THEN s
  ELSE commitFrom(commitPatch(s, patches[i]), patches, i + 1)

\* commit(patches): for (const patch of patches) ...; an exception leaves the
\* loop
commit(s, patches) == commitFrom(s, patches, 1)

\* currentVNode = nextVNode, for the state t commit left: not reached when
\* commit threw
adopt(t, nextVNode) ==
  IF t.thrown THEN t ELSE [t EXCEPT !.currentVNode = nextVNode]

\* update that adopts the next tree even when commit threw
update_adopt(s, nextVNode) ==
  [commit(s, diff(s.currentVNode, nextVNode)) EXCEPT !.currentVNode = nextVNode]

\* update(nextVNode): diff, commit, adopt; an exception thrown by commit
\* propagates before `currentVNode = nextVNode`
update(s, nextVNode) ==
  adopt(commit(s, diff(s.currentVNode, nextVNode)), nextVNode)

\* unmount() without the `if (rootNode)` guard
unmount_unguarded(s) ==
  [hostRemove(s, s.rootNode, "unmount")
     EXCEPT !.rootNode = NullNode, !.currentVNode = Null, !.nodeMap = EmptyMap]

\* unmount()
unmount(s) ==
  IF s.rootNode # NullNode
  THEN [hostRemove(s, s.rootNode, "unmount")
          EXCEPT !.rootNode = NullNode, !.currentVNode = Null,
                 !.nodeMap = EmptyMap]
  ELSE s

----------------------------------------------------------------------------
(* Spec: one mounted root *)

\* the variables take the fields of the state t
Becomes(t) ==
  /\ currentVNode' = t.currentVNode
  /\ rootNode' = t.rootNode
  /\ nodeMap' = t.nodeMap
  /\ pending' = t.pending
  /\ childNodes' = t.childNodes
  /\ tagName' = t.tagName
  /\ data' = t.data
  /\ attrs' = t.attrs
  /\ hostLog' = t.hostLog
  /\ thrown' = t.thrown

\* before mount(): an empty container, no tree
Init ==
  /\ vnodeId = 0
  /\ currentVNode = Null
  /\ rootNode = NullNode
  /\ nodeMap = EmptyMap
  /\ pending = << >>
  /\ childNodes = << << >> >>
  /\ tagName = << "div" >>
  /\ data = << "" >>
  /\ attrs = << NoProps >>
  /\ menu \in Families
  /\ hostLog = << >>
  /\ pre = St
  /\ lastOp = [op |-> "init", arg |-> 0]
  /\ calls = 0
  /\ collided = FALSE
  /\ thrown = FALSE
  /\ dprev = Null
  /\ dnext = Null
  /\ dpatches = << >>
  /\ dpc = "idle"
  /\ hargs = [props |-> NoProps, raw |-> << >>]
  /\ hres = [kind |-> "none", vnode |-> Null]
  /\ hpc = "idle"

\* mount() returned a Root: it was called and its update() did not throw
HasRoot ==
  /\ lastOp.op # "init"
  /\ ~(lastOp.op = "mount" /\ thrown)

\* mount(h(type, null, ...), container): the first update()
Mount ==
  /\ lastOp.op = "init"
  /\ \E tr \in Trees(menu), ty \in menu.roottypes :
       /\ Becomes(update(St, hTree(ty, tr, vnodeId)))
       /\ vnodeId' = vnodeId + Constructed(tr.cs)
       /\ collided' = (collided \/ ~DistinctKeys(tr.cs))
       /\ lastOp' = [op |-> "mount", arg |-> 0,
                     next |-> hTree(ty, tr, vnodeId)]
  /\ pre' = St
  /\ UNCHANGED << menu, calls, dvars >>

\* root.update(h(type, null, ...))
Update ==
  /\ HasRoot
  /\ calls < MaxCalls
  /\ calls < menu.steps
  /\ \E tr \in Trees(menu), ty \in menu.roottypes :
       /\ Becomes(update(St, hTree(ty, tr, vnodeId)))
       /\ vnodeId' = vnodeId + Constructed(tr.cs)
       /\ collided' = (collided \/ ~DistinctKeys(tr.cs))
       /\ lastOp' = [op |-> "update", arg |-> 0,
                     next |-> hTree(ty, tr, vnodeId)]
  /\ pre' = St
  /\ calls' = calls + 1
  /\ UNCHANGED << menu, dvars >>

\* a remove hook invokes the completion callback it was given
Done ==
  /\ \E i \in 1..Len(pending) :
       /\ pending[i].calls < MaxDoneCalls
       /\ Becomes([finalizeRemoval(St, pending[i].id, pending[i].node)
                     EXCEPT !.pending[i].calls = @ + 1])
       /\ lastOp' = [op |-> "done", arg |-> i]
  /\ pre' = St
  /\ UNCHANGED << vnodeId, menu, calls, collided, dvars >>

\* root.unmount()
Unmount ==
  /\ HasRoot
  /\ calls < MaxCalls
  /\ calls < menu.steps
  /\ Becomes(unmount(St))
  /\ pre' = St
  /\ lastOp' = [op |-> "unmount", arg |-> 0]
  /\ calls' = calls + 1
  /\ UNCHANGED << vnodeId, menu, collided, dvars >>

Next == Mount \/ Update \/ Done \/ Unmount

Spec == Init /\ [][Next]_vars

----------------------------------------------------------------------------
(* SpecFull: one mounted root, over the trees of RichFamilies *)

FullInit ==
  /\ vnodeId = 0
  /\ currentVNode = Null
  /\ rootNode = NullNode
  /\ nodeMap = EmptyMap
  /\ pending = << >>
  /\ childNodes = << << >> >>
  /\ tagName = << "div" >>
  /\ data = << "" >>
  /\ attrs = << NoProps >>
  /\ menu \in RichFamilies
  /\ hostLog = << >>
  /\ pre = St
  /\ lastOp = [op |-> "init", arg |-> 0]
  /\ calls = 0
  /\ collided = FALSE
  /\ thrown = FALSE
  /\ dprev = Null
  /\ dnext = Null
  /\ dpatches = << >>
  /\ dpc = "idle"
  /\ hargs = [props |-> NoProps, raw |-> << >>]
  /\ hres = [kind |-> "none", vnode |-> Null]
  /\ hpc = "idle"

\* the lists made of children of the list l, each taken at most once
Rearranged(l) ==
  { AsSeq([i \in 1..Len(p) |-> l[p[i]]]) :
      p \in { q \in SeqsUpTo(1..Len(l), Len(l)) :
                \A i, j \in 1..Len(q) : i # j => q[i] # q[j] } }

\* root.update(h('div', null, [...])) over child VNodes of the current tree:
\* only the root is constructed
Reuse ==
  /\ HasRoot
  /\ menu.reuse
  /\ calls < MaxCalls
  /\ calls < menu.steps
  /\ currentVNode # Null
  /\ \E l \in Rearranged(ChildList(currentVNode)) :
       LET next == createVNode(vnodeId, "div", NoProps, NoHooks,
                               IF Len(l) > 0 THEN "list" ELSE "none", "",
                               l, NoKey)
       IN /\ Becomes(update(St, next))
          /\ lastOp' = [op |-> "update", arg |-> 0, next |-> next]
  /\ vnodeId' = vnodeId + 1
  /\ pre' = St
  /\ calls' = calls + 1
  /\ UNCHANGED << menu, collided, dvars >>

\* root.update(h(type, null, [child])) over a child VNode whose removal a
\* remove hook still defers: the caller kept the VNode and shows it again
ReusePending ==
  /\ HasRoot
  /\ menu.reuse
  /\ calls < MaxCalls
  /\ calls < menu.steps
  /\ \E i \in 1..Len(pending), ty \in menu.roottypes :
       LET next == createVNode(vnodeId, ty, NoProps, NoHooks, "list", "",
                               << pending[i].vnode >>, NoKey)
       IN /\ pending[i].calls = 0
          /\ Becomes(update(St, next))
          /\ lastOp' = [op |-> "update", arg |-> 0, next |-> next]
  /\ vnodeId' = vnodeId + 1
  /\ pre' = St
  /\ calls' = calls + 1
  /\ UNCHANGED << menu, collided, dvars >>

\* root.update(null): the next tree is absent
UpdateNull ==
  /\ HasRoot
  /\ menu.nulls
  /\ calls < MaxCalls
  /\ calls < menu.steps
  /\ Becomes(update(St, Null))
  /\ lastOp' = [op |-> "update", arg |-> 0, next |-> Null]
  /\ pre' = St
  /\ calls' = calls + 1
  /\ UNCHANGED << vnodeId, menu, collided, dvars >>

FullNext ==
  Mount \/ Update \/ Done \/ Unmount \/ Reuse \/ UpdateNull \/ ReusePending

SpecFull == FullInit /\ [][FullNext]_vars

----------------------------------------------------------------------------
(* SpecDiff: diff(oldVNode, newVNode) on two freshly built trees *)

\* the trees of all families
DiffTrees == UNION { Trees(f) : f \in Families }

\* the root types of diff's second argument
NextRootTypes == {"div", "section"}

DiffInit ==
  /\ vnodeId = 0
  /\ currentVNode = Null
  /\ rootNode = NullNode
  /\ nodeMap = EmptyMap
  /\ pending = << >>
  /\ childNodes = << << >> >>
  /\ tagName = << "div" >>
  /\ data = << "" >>
  /\ attrs = << NoProps >>
  /\ menu = CHOOSE f \in Families : f.name = "keyed"
  /\ hostLog = << >>
  /\ pre = St
  /\ lastOp = [op |-> "init", arg |-> 0]
  /\ calls = 0
  /\ collided = FALSE
  /\ thrown = FALSE
  /\ \E cs \in DiffTrees, withPrev \in BOOLEAN :
       /\ dprev = IF withPrev THEN hTree("div", cs, 0) ELSE Null
       /\ \E ds \in DiffTrees, t \in NextRootTypes, withNext \in BOOLEAN :
            dnext = IF withNext
                    THEN hTree(t, ds, IF withPrev THEN Constructed(cs.cs) ELSE 0)
                    ELSE Null
  /\ dpatches = << >>
  /\ dpc = "input"
  /\ hargs = [props |-> NoProps, raw |-> << >>]
  /\ hres = [kind |-> "none", vnode |-> Null]
  /\ hpc = "idle"

\* patches = diff(dprev, dnext)
DiffCall ==
  /\ dpc = "input"
  /\ dpatches' = diff(dprev, dnext)
  /\ dpc' = "done"
  /\ UNCHANGED << rvars, dprev, dnext, hvars >>

DiffNext == DiffCall

SpecDiff == DiffInit /\ [][DiffNext]_vars

----------------------------------------------------------------------------
(* SpecDiffFull: diff on two freshly built trees of one of the RichFamilies *)

DiffFullInit ==
  /\ vnodeId = 0
  /\ currentVNode = Null
  /\ rootNode = NullNode
  /\ nodeMap = EmptyMap
  /\ pending = << >>
  /\ childNodes = << << >> >>
  /\ tagName = << "div" >>
  /\ data = << "" >>
  /\ attrs = << NoProps >>
  /\ menu \in RichFamilies
  /\ hostLog = << >>
  /\ pre = St
  /\ lastOp = [op |-> "init", arg |-> 0]
  /\ calls = 0
  /\ collided = FALSE
  /\ thrown = FALSE
  /\ \E cs \in Trees(menu), ds \in Trees(menu) :
       /\ dprev = hTree("div", cs, 0)
       /\ dnext = hTree("div", ds, Constructed(cs.cs))
  /\ dpatches = << >>
  /\ dpc = "input"
  /\ hargs = [props |-> NoProps, raw |-> << >>]
  /\ hres = [kind |-> "none", vnode |-> Null]
  /\ hpc = "idle"

SpecDiffFull == DiffFullInit /\ [][DiffNext]_vars

----------------------------------------------------------------------------
(* SpecH: h(type, props, ...rawChildren) on one argument list *)

\* two VNodes constructed before the call, with __id 0 and 1
ChildX == hText("span", "x", 0)
ChildY == hText("em", "y", 1)

\* the raw children that are no arrays
RawAtoms ==
  { RawNull, RawUndefined, RawBool(TRUE), RawNum(7), RawNum(12),
    RawStr("a"), RawStr(""), RawNode(ChildX), RawNode(ChildY) }

\* the raw children put into nested arrays
RawInner == { RawNull, RawNum(7), RawStr("a"), RawNode(ChildX) }

\* arrays of raw children, and arrays holding such an array
RawArrays ==
  { RawArr(s) : s \in SeqsUpTo(RawInner, MaxArr) }
  \cup { RawArr(<< RawArr(<< x >>), y >>) : x \in RawInner, y \in RawInner }

\* the props objects given to h(): null (no props), with and without a key
PropsArgs ==
  { NoProps, [NoProps EXCEPT !.key = "a"], [NoProps EXCEPT !.class = "x"],
    [key |-> "a", class |-> "x"] }

HInit ==
  /\ vnodeId = 2
  /\ currentVNode = Null
  /\ rootNode = NullNode
  /\ nodeMap = EmptyMap
  /\ pending = << >>
  /\ childNodes = << << >> >>
  /\ tagName = << "div" >>
  /\ data = << "" >>
  /\ attrs = << NoProps >>
  /\ menu = CHOOSE f \in Families : f.name = "keyed"
  /\ hostLog = << >>
  /\ pre = St
  /\ lastOp = [op |-> "init", arg |-> 0]
  /\ calls = 0
  /\ collided = FALSE
  /\ thrown = FALSE
  /\ dprev = Null
  /\ dnext = Null
  /\ dpatches = << >>
  /\ dpc = "idle"
  /\ \E p \in PropsArgs, raw \in SeqsUpTo(RawAtoms \cup RawArrays, MaxArgs) :
       hargs = [props |-> p, raw |-> AsSeq(raw)]
  /\ hres = [kind |-> "none", vnode |-> Null]
  /\ hpc = "input"

\* result = h('div', props, ...raw), or the Error caught
HCall ==
  /\ hpc = "input"
  /\ hres' = hCall("div", hargs.props, hargs.raw, vnodeId)
  /\ vnodeId' = IF hres'.kind = "return" THEN vnodeId + 1 ELSE vnodeId
  /\ hpc' = "done"
  /\ UNCHANGED << currentVNode, rootNode, nodeMap, pending, childNodes,
                  tagName, data, attrs, menu, hostLog, pre, lastOp, calls,
                  collided, thrown, dprev, dnext, dpatches, dpc, hargs >>

HNext == HCall

SpecH == HInit /\ [][HNext]_vars

----------------------------------------------------------------------------
(* Properties of diff, checked under SpecDiff *)

\* diff was called on two trees with roots of one type
DiffedSameRoot ==
  /\ dpc = "done"
  /\ dprev # Null
  /\ dnext # Null
  /\ dprev.type = dnext.type

AllKeyed(l) == \A i \in 1..Len(l) : l[i].key # NoKey

KeysOf(l) == { l[i].key : i \in 1..Len(l) }

\* 0-based index of the child with the key in a list with distinct keys
PosOfKey(l, key) == (CHOOSE i \in 1..Len(l) : l[i].key = key) - 1

\* every child of new has a child of old with its key, of the same type
KeysKept(old, new) ==
  \A i \in 1..Len(new) :
    \E j \in 1..Len(old) : old[j].key = new[i].key /\ old[j].type = new[i].type

\* new is a permutation of the keyed list old: no addition, removal, type change
IsPermutation(old, new) ==
  /\ Len(old) > 0
  /\ AllKeyed(old) /\ AllKeyed(new)
  /\ DistinctKeys(old) /\ DistinctKeys(new)
  /\ Len(old) = Len(new)
  /\ KeysKept(old, new)

\* new is the keyed list old with some children taken out, the rest in order
IsSubsetRemoval(old, new) ==
  /\ AllKeyed(old) /\ AllKeyed(new)
  /\ DistinctKeys(old) /\ DistinctKeys(new)
  /\ Len(new) < Len(old)
  /\ KeysKept(old, new)
  /\ \A i, j \in 1..Len(new) :
       i < j => PosOfKey(old, new[i].key) < PosOfKey(old, new[j].key)

\* the patches of a list that change the shape of the tree
Structural(ps) ==
  { ps[i] : i \in { j \in 1..Len(ps) :
                      ps[j].type \in {"INSERT", "REMOVE", "MOVE", "REPLACE"} } }

PatchTypes(ps) == { ps[i].type : i \in 1..Len(ps) }

\* C3: for a keyed sibling list with distinct keys and a permutation of it
\* (nothing added, removed or changed in type), diff's patch list has no INSERT
\* and no REMOVE (and no REPLACE): its only structural patches are MOVEs.
C3_PermutationOnlyMoves ==
  (DiffedSameRoot /\ IsPermutation(ChildList(dprev), ChildList(dnext)))
    => PatchTypes(dpatches) \subseteq
         {"MOVE", "UPDATE", "UPDATE_TEXT", "SET_PROP", "REMOVE_PROP"}

\* diff ran on [a,b,c] -> a rotation of it and produced MOVE patches
C3_Witness ==
  /\ DiffedSameRoot
  /\ IsPermutation(ChildList(dprev), ChildList(dnext))
  /\ Len(ChildList(dprev)) = 3
  /\ \A i \in 1..3 : ChildList(dprev)[i].key # ChildList(dnext)[i].key
  /\ "MOVE" \in PatchTypes(dpatches)

\* the REMOVE patches diff must emit for a subset removal
RemovalsOf(prev, old, new) ==
  { [type |-> "REMOVE", parent |-> prev, vnode |-> old[i]] :
      i \in { j \in 1..Len(old) : old[j].key \notin KeysOf(new) } }

\* the MOVE patches diff emits for the children that stay at another index
ShiftsOf(prev, old, new) ==
  { [type |-> "MOVE", parent |-> prev,
     vnode |-> old[PosOfKey(old, new[i].key) + 1],
     from |-> PosOfKey(old, new[i].key), to |-> i - 1] :
      i \in { j \in 1..Len(new) : PosOfKey(old, new[j].key) # j - 1 } }

\* C4 (as stated): when the next keyed list is the previous one with a subset
\* of children removed, diff emits no INSERT and no MOVE patch.
C4_NoInsertNoMove ==
  (DiffedSameRoot /\ IsSubsetRemoval(ChildList(dprev), ChildList(dnext)))
    => PatchTypes(dpatches) \cap {"INSERT", "MOVE"} = {}

\* C4 (amended): when the next keyed list is the previous one with a subset of
\* children removed, diff's structural patches are one REMOVE for each removed
\* child, no INSERT, and a MOVE(from old index, to new index) for exactly the
\* remaining children whose index in the next list differs from the old one.
C4_RemovesAndShifts ==
  (DiffedSameRoot /\ IsSubsetRemoval(ChildList(dprev), ChildList(dnext)))
    => Structural(dpatches) =
         RemovalsOf(dprev, ChildList(dprev), ChildList(dnext))
         \cup ShiftsOf(dprev, ChildList(dprev), ChildList(dnext))

\* diff ran on [a,b,c] -> [a,c]: b is removed and c shifts from index 2 to 1
C4_Witness ==
  /\ DiffedSameRoot
  /\ IsSubsetRemoval(ChildList(dprev), ChildList(dnext))
  /\ Len(ChildList(dprev)) = 3 /\ Len(ChildList(dnext)) = 2
  /\ ChildList(dprev)[1].key = ChildList(dnext)[1].key
  /\ ChildList(dprev)[3].key = ChildList(dnext)[2].key
  /\ \E i \in 1..Len(dpatches) : dpatches[i].type = "REMOVE"

\* the new child at 0-based index i has a matched old child
Matched(old, new, i) ==
  IF hasKeys(old, new)
  THEN new[i + 1].key # NoKey /\ OldKeyHas(old, new[i + 1].key)
  ELSE i < Len(old)

\* the old child matched with the new child at 0-based index i
MatchOf(old, new, i) ==
  IF hasKeys(old, new) THEN OldKeyGet(old, new[i + 1].key) ELSE old[i + 1]

\* REMOVE(parent, oldChild) is directly followed by INSERT(parent, newChild, i)
RemoveThenInsert(ps, parent, oldChild, newChild, i) ==
  \E j \in 1..(Len(ps) - 1) :
    /\ ps[j] = [type |-> "REMOVE", parent |-> parent, vnode |-> oldChild]
    /\ ps[j + 1] = [type |-> "INSERT", parent |-> parent, vnode |-> newChild,
                    index |-> i]

\* no patch reuses oldChild for newChild
NoReuse(ps, oldChild, newChild) ==
  \A j \in 1..Len(ps) :
    /\ ps[j].type = "UPDATE" =>
         (ps[j].newVNode.id # newChild.id /\ ps[j].oldVNode.id # oldChild.id)
    /\ ps[j].type \in {"UPDATE_TEXT", "SET_PROP", "MOVE"} =>
         ps[j].vnode.id # oldChild.id

\* C10: a child matched by index or by key whose type differs in the next tree
\* gives REMOVE(parent, old child) directly followed by INSERT(parent, new
\* child, index of the new child), and no UPDATE, UPDATE_TEXT, SET_PROP or MOVE
\* for the pair; roots of different types give exactly [REPLACE(next)].
C10_TypeChange ==
  /\ DiffedSameRoot =>
       \A i \in 0..(Len(ChildList(dnext)) - 1) :
         LET old == ChildList(dprev)
             new == ChildList(dnext)
         IN (Matched(old, new, i) /\ MatchOf(old, new, i).type # new[i + 1].type)
              => /\ RemoveThenInsert(dpatches, dprev, MatchOf(old, new, i),
                                     new[i + 1], i)
                 /\ NoReuse(dpatches, MatchOf(old, new, i), new[i + 1])
  /\ (dpc = "done" /\ dprev # Null /\ dnext # Null /\ dprev.type # dnext.type)
       => dpatches = << [type |-> "REPLACE", vnode |-> dnext] >>

\* diff ran on lists where a key stays but its child's type changes, at
\* another index than before, next to a child that is reused
C10_Witness ==
  /\ DiffedSameRoot
  /\ \E i \in 0..(Len(ChildList(dnext)) - 1) :
       LET old == ChildList(dprev)
           new == ChildList(dnext)
       IN /\ hasKeys(old, new)
          /\ Matched(old, new, i)
          /\ MatchOf(old, new, i).type # new[i + 1].type
          /\ OldIndexGet(old, MatchOf(old, new, i)) # i
  /\ "UPDATE_TEXT" \notin PatchTypes(dpatches)
  /\ Len(dpatches) > 3

----------------------------------------------------------------------------
(* Properties of the renderer, checked under Spec *)

\* the current tree's children of the root
Kids == ChildList(currentVNode)

\* the children of the tree that was current when the last step began
PreKids == ChildList(pre.currentVNode)

\* the handle the identity map held for the old child with new[i]'s key when
\* the last step began
PreHandle(i) == pre.nodeMap[PreKids[PosOfKey(PreKids, Kids[i].key) + 1].id]

\* the last step was the first update() after mount(), both with a tree
FirstUpdate ==
  /\ lastOp.op = "update"
  /\ calls = 1
  /\ pre.currentVNode # Null
  /\ currentVNode # Null

\* C1 (as stated): after mount and after every completed update, every node
\* reachable from the current tree has exactly one identity-map entry, and no
\* two reachable nodes share a handle.
C1_IdentityMapAlways ==
  lastOp.op \in {"mount", "update"} =>
    /\ IdsOf(currentVNode) \subseteq DOMAIN nodeMap
    /\ \A x, y \in IdsOf(currentVNode) : x # y => nodeMap[x] # nodeMap[y]

\* C1 (amended): after mount and after every completed update, provided no
\* tree given to mount or update so far had two siblings with the same key,
\* every node reachable from the current tree has exactly one identity-map
\* entry, and no two reachable nodes share a handle.
C1_IdentityMap ==
  (lastOp.op \in {"mount", "update"} /\ ~collided) =>
    /\ IdsOf(currentVNode) \subseteq DOMAIN nodeMap
    /\ \A x, y \in IdsOf(currentVNode) : x # y => nodeMap[x] # nodeMap[y]

\* a second update completed, with a child reused (its handle was in the map
\* before) next to a child created by this update
C1_Witness ==
  /\ lastOp.op = "update"
  /\ calls = 2
  /\ ~collided
  /\ Len(Kids) >= 2
  /\ \E i \in 1..Len(Kids) :
       \E x \in DOMAIN pre.nodeMap : pre.nodeMap[x] = MapGet(nodeMap, Kids[i].id)
  /\ \E i \in 1..Len(Kids) :
       \A x \in DOMAIN pre.nodeMap : pre.nodeMap[x] # MapGet(nodeMap, Kids[i].id)

\* C2: after mount(keyed list with distinct keys) then update(a permutation of
\* it), the root's host children are the handles the keys had before, in the
\* permuted order (so the child count is unchanged and every handle is kept).
C2_PermutedOrder ==
  (FirstUpdate /\ IsPermutation(PreKids, Kids)) =>
    childNodes[rootNode] = [i \in 1..Len(Kids) |-> PreHandle(i)]

\* C5: after mount(keyed list) then update(the list with a subset of keys
\* removed, no reorder, no hooks), the root's host children are exactly the
\* handles of the remaining keys in their original relative order, each the
\* handle it was before, and every removed key's handle is detached and has no
\* identity-map entry.
C5_SubsetRemovalCommit ==
  (/\ FirstUpdate
   /\ IsSubsetRemoval(PreKids, Kids)
   /\ \A j \in 1..Len(PreKids) : PreKids[j].hooks.remove = "none")
    => /\ rootNode = pre.rootNode
       /\ childNodes[rootNode] = [i \in 1..Len(Kids) |-> PreHandle(i)]
       /\ \A i \in 1..Len(Kids) : MapGet(nodeMap, Kids[i].id) = PreHandle(i)
       /\ \A j \in 1..Len(PreKids) :
            PreKids[j].key \notin KeysOf(Kids) =>
              /\ parentNode(St, pre.nodeMap[PreKids[j].id]) = NullNode
              /\ PreKids[j].id \notin DOMAIN nodeMap
              /\ \A x \in DOMAIN nodeMap : nodeMap[x] # pre.nodeMap[PreKids[j].id]

\* mount([a,b,c]) then update([a,c]): the middle child is removed
C5_Witness ==
  /\ FirstUpdate
  /\ IsSubsetRemoval(PreKids, Kids)
  /\ \A j \in 1..Len(PreKids) : PreKids[j].hooks.remove = "none"
  /\ Len(PreKids) = 3 /\ Len(Kids) = 2
  /\ Kids[1].key = PreKids[1].key
  /\ Kids[2].key = PreKids[3].key
  /\ Len(childNodes[rootNode]) = 2

\* the root was unmounted (or replaced) after the remove hook of the node
\* with the given __id was called
ClearedSince(id) ==
  \E i, j \in 1..Len(hostLog) :
    /\ i < j
    /\ hostLog[i].op = "removeHook"
    /\ hostLog[i].id = id
    /\ hostLog[j].op = "remove"
    /\ hostLog[j].by \in {"unmount", "REPLACE"}

OverwrittenSince(id) ==
  \E i, j \in 1..Len(hostLog) :
    /\ i < j
    /\ hostLog[i].op = "removeHook"
    /\ hostLog[i].id = id
    /\ hostLog[j].op = "textContent"
    /\ hostLog[j].node = hostLog[i].parent

RemoveCalls(n) ==
  Cardinality({ i \in 1..Len(hostLog) :
                  /\ hostLog[i].op = "remove"
                  /\ hostLog[i].by = "finalizeRemoval"
                  /\ hostLog[i].node = n })

\* C7: for any removed node the host remove operation is invoked at most once,
\* even when the remove hook invokes its completion callback more than once.
C7_RemoveAtMostOnce ==
  \A n \in 1..Len(tagName) : RemoveCalls(n) <= 1

\* C8: with several deferred removals pending, invoking the completion callback
\* of one of them detaches only that node's handle and deletes only that
\* node's identity-map entry: every other pending closure, every other map
\* entry and every other node's place in the host tree stay as they were.
C8_IndependentCompletions ==
  lastOp.op = "done" =>
    LET c == pre.pending[lastOp.arg] IN
    /\ nodeMap = MapDelete(pre.nodeMap, c.id)
    /\ \A x \in DOMAIN pre.nodeMap : x # c.id => pre.nodeMap[x] # c.node
    /\ Len(childNodes) = Len(pre.childNodes)
    /\ \A n \in 1..Len(childNodes) :
         childNodes[n] = RemoveFrom(pre.childNodes[n], c.node)
    /\ Len(pending) = Len(pre.pending)
    /\ \A j \in 1..Len(pending) :
         j # lastOp.arg =>
           /\ pending[j] = pre.pending[j]
           /\ parentNode(St, pending[j].node) = parentNode(pre, pending[j].node)
    /\ rootNode = pre.rootNode
    /\ currentVNode = pre.currentVNode

\* two removals are pending and the callback of the second fired first: the
\* first node is still attached and mapped, and so is a live child
C8_Witness ==
  /\ lastOp.op = "done"
  /\ lastOp.arg = 2
  /\ Len(pending) = 2
  /\ pending[1].calls = 0 /\ pending[2].calls = 1
  /\ parentNode(St, pending[1].node) = rootNode
  /\ MapGet(nodeMap, pending[1].id) = pending[1].node
  /\ parentNode(St, pending[2].node) = NullNode
  /\ Len(Kids) > 0
  /\ \A i \in 1..Len(Kids) :
       parentNode(St, MapGet(nodeMap, Kids[i].id)) = rootNode

\* C9: for every interleaving of update calls with the completion callbacks of
\* deferred removals, once every pending completion has fired the root's host
\* child list equals, in order, the handles of the current tree's children.
C9_ConvergedOrder ==
  (/\ currentVNode # Null
   /\ ~collided
   /\ Len(pending) > 0
   /\ \A i \in 1..Len(pending) : pending[i].calls > 0)
    => childNodes[rootNode] = [i \in 1..Len(Kids) |-> MapGet(nodeMap, Kids[i].id)]

\* the last step was an update() from a tree to a tree
TreeUpdate ==
  /\ lastOp.op = "update"
  /\ pre.currentVNode # Null
  /\ currentVNode # Null

\* the update kept every child's position in the matching: the lists have one
\* length, every new child has a matched old child, no old child is matched
\* twice, and no old child had a remove hook
SameChildren ==
  /\ TreeUpdate
  /\ ~collided
  /\ Len(Kids) = Len(PreKids)
  /\ \A i \in 0..(Len(Kids) - 1) : Matched(PreKids, Kids, i)
  /\ \A i, j \in 0..(Len(Kids) - 1) :
       i # j => MatchOf(PreKids, Kids, i).id # MatchOf(PreKids, Kids, j).id
  /\ \A j \in 1..Len(PreKids) : PreKids[j].hooks.remove = "none"

\* the new child at 0-based index i changed type against its matched old child
TypeChanged(i) == MatchOf(PreKids, Kids, i).type # Kids[i + 1].type

NotRemovedByStep(handle) ==
  \A k \in (Len(pre.hostLog) + 1)..Len(hostLog) :
    hostLog[k].op = "remove" => hostLog[k].node # handle

\* the handle the identity map gives the node is the one it gave its
\* predecessor before the step; the step neither created nor removed it
Reused(old, new) ==
  /\ old.id \in DOMAIN pre.nodeMap
  /\ MapGet(nodeMap, new.id) = pre.nodeMap[old.id]
  /\ pre.nodeMap[old.id] <= Len(pre.tagName)
  /\ NotRemovedByStep(pre.nodeMap[old.id])

\* the node's handle shows the node's text, when the node has text children
ShowsText(new) ==
  new.ckind = "text" => textContent(St, MapGet(nodeMap, new.id)) = new.text

\* C12: for every update in which a node at a matched position (the root, or
\* a child matched by key or by index) keeps its type, the handle mapped from
\* the next node's id is the handle that was mapped from the previous node's
\* id, no host node is created or removed for it, and its visible text is the
\* next node's text.
C12_SameTypeReuse ==
  (TreeUpdate /\ ~collided) =>
    /\ Reused(pre.currentVNode, currentVNode)
    /\ ShowsText(currentVNode)
    /\ \A i \in 0..(Len(Kids) - 1) :
         (Matched(PreKids, Kids, i) /\ ~TypeChanged(i)) =>
           /\ Reused(MatchOf(PreKids, Kids, i), Kids[i + 1])
           /\ ShowsText(Kids[i + 1])

\* C13: for any two keyed sibling lists with distinct keys (any combination of
\* insertions, removals and reorderings, no remove hooks), committing diff's
\* patches in sequence leaves the root's host children in the order of the
\* next list: the handles of the next children, one each, in list order.
C13_KeyedCommitOrder ==
  (/\ FirstUpdate
   /\ AllKeyed(PreKids) /\ AllKeyed(Kids)
   /\ DistinctKeys(PreKids) /\ DistinctKeys(Kids)
   /\ Len(PreKids) > 0 /\ Len(Kids) > 0
   /\ \A j \in 1..Len(PreKids) : PreKids[j].hooks.remove = "none")
    => /\ Len(childNodes[rootNode]) = Len(Kids)
       /\ \A i \in 1..Len(Kids) :
            childNodes[rootNode][i] = MapGet(nodeMap, Kids[i].id)

\* C14: diff(null, T) is exactly [REPLACE(T)], diff(T, null) is exactly
\* [REPLACE(null)] and diff(null, null) is the empty list, for every tree T.
C14_NullTransitions ==
  dpc = "done" =>
    /\ (dprev = Null /\ dnext # Null) =>
         dpatches = << [type |-> "REPLACE", vnode |-> dnext] >>
    /\ (dprev # Null /\ dnext = Null) =>
         dpatches = << [type |-> "REPLACE", vnode |-> Null] >>
    /\ (dprev = Null /\ dnext = Null) => dpatches = << >>

\* diff ran on a tree of three children and null, and returned one patch
C14_Witness ==
  /\ dpc = "done"
  /\ dprev # Null
  /\ Len(ChildList(dprev)) = 3
  /\ dnext = Null
  /\ Len(dpatches) = 1

\* the two nodes differ in nothing but their __id (children apart)
SameNode(n, m) ==
  /\ n.type = m.type
  /\ n.key = m.key
  /\ n.props = m.props
  /\ n.hooks = m.hooks
  /\ n.ckind = m.ckind
  /\ n.text = m.text

\* diff ran on a tree and a freshly constructed tree with the same types,
\* keys, props and children
DiffedIdentical ==
  /\ DiffedSameRoot
  /\ SameNode(dprev, dnext)
  /\ Len(ChildList(dprev)) = Len(ChildList(dnext))
  /\ \A i \in 1..Len(ChildList(dprev)) :
       SameNode(ChildList(dprev)[i], ChildList(dnext)[i])
  /\ IdsOf(dprev) \cap IdsOf(dnext) = {}

\* the sibling list is keyed throughout with distinct keys, or has no key
UniformKeys(l) ==
  \/ AllKeyed(l) /\ DistinctKeys(l)
  \/ \A i \in 1..Len(l) : l[i].key = NoKey

\* the patches are exactly one UPDATE(n, n') for the root pair and for every
\* pair of children at the same position, and nothing else
OneUpdatePerNode(ps, prev, next) ==
  /\ PatchTypes(ps) \subseteq {"UPDATE"}
  /\ Len(ps) = 1 + Len(ChildList(prev))
  /\ { << ps[j].oldVNode, ps[j].newVNode >> : j \in 1..Len(ps) } =
       { << prev, next >> }
       \cup { << ChildList(prev)[i], ChildList(next)[i] >> :
                i \in 1..Len(ChildList(prev)) }

\* C15 (as stated): for every tree T and a freshly constructed tree T' with
\* the same types, keys, props and children, diff(T, T') has no SET_PROP,
\* REMOVE_PROP, INSERT, REMOVE, MOVE or UPDATE_TEXT patch and exactly one
\* UPDATE(n, n') for every node n of T paired with its counterpart n'.
C15_IdenticalAnyTree ==
  DiffedIdentical => OneUpdatePerNode(dpatches, dprev, dnext)

\* C15 (amended): the same, for every tree T whose sibling lists are either
\* keyed throughout with distinct keys or without any key.
C15_IdenticalUniformKeys ==
  (DiffedIdentical /\ UniformKeys(ChildList(dprev)))
    => OneUpdatePerNode(dpatches, dprev, dnext)

\* diff ran on two copies of a tree with three keyed children
C15_Witness ==
  /\ DiffedIdentical
  /\ Len(ChildList(dprev)) = 3
  /\ AllKeyed(ChildList(dprev))
  /\ DistinctKeys(ChildList(dprev))
  /\ Len(dpatches) = 4

\* C16: unmount is idempotent: a call with a root removes the root host node
\* (one host.remove call), empties the identity map and clears the current
\* tree and the root reference; a call without a root performs no host
\* operation and changes no state.
C16_UnmountIdempotent ==
  lastOp.op = "unmount" =>
    IF pre.rootNode # NullNode
    THEN /\ rootNode = NullNode
         /\ currentVNode = Null
         /\ nodeMap = EmptyMap
         /\ parentNode(St, pre.rootNode) = NullNode
         /\ childNodes[container] = << >>
         /\ hostLog = Append(pre.hostLog,
                             [op |-> "remove", node |-> pre.rootNode,
                              by |-> "unmount"])
    ELSE St = pre

\* unmount() was called a second time, right after the first
C16_Witness ==
  /\ lastOp.op = "unmount"
  /\ calls = 2
  /\ pre.rootNode = NullNode
  /\ pre.currentVNode = Null
  /\ Len(hostLog) > 0
  /\ hostLog[Len(hostLog)].op = "remove"
  /\ hostLog[Len(hostLog)].by = "unmount"

\* C17: a Node built by h from props with a key carries the key in its key
\* field and its props hold no key entry, so the host's set-property
\* operation is never called with the key.
C17_KeyLeavesProps ==
  /\ \A n \in NodesOf(currentVNode) : n.key # NoKey => n.props.key = Absent
  /\ \A k \in 1..Len(hostLog) :
       hostLog[k].op = "setProp" => hostLog[k].key # "key"

----------------------------------------------------------------------------
(* Properties of h, checked under SpecH *)

RECURSIVE SurvivorsOf(_)
RECURSIVE SurvivorsFrom(_, _)

\* the strings, numbers and VNodes of one raw child, nested arrays flattened
\* in order, null / undefined / booleans left out
SurvivorsOf(child) ==
  IF child.k \in {"null", "undefined", "boolean"} THEN << >>
  ELSE IF child.k = "array" THEN SurvivorsFrom(child.items, 1)
  ELSE << child >>

SurvivorsFrom(input, i) ==
  IF i > Len(input) THEN << >>
  ELSE SurvivorsOf(input[i]) \o SurvivorsFrom(input, i + 1)

\* the surviving children of the call's argument list
Survivors == SurvivorsFrom(hargs.raw, 1)

SurvivingTexts == SelectSeq(Survivors, LAMBDA c : c.k \in {"number", "string"})

SurvivingNodes == SelectSeq(Survivors, LAMBDA c : c.k = "vnode")

RECURSIVE TextOf(_, _)
\* the strings and stringified numbers of the sequence, concatenated
TextOf(cs, i) ==
  IF i > Len(cs) THEN "" ELSE String(cs[i]) \o TextOf(cs, i + 1)

\* C18: for every child argument list given to h, the children of the result
\* are exactly one of absent, a text or a list of Nodes: null, undefined and
\* booleans are discarded, nested arrays are flattened in order, numbers and
\* strings are concatenated in order into one text, surviving Nodes form the
\* list in order, and the children are absent when nothing survives.
C18_ChildNormalization ==
  hpc = "done" =>
    /\ (SurvivingTexts = << >> \/ SurvivingNodes = << >>) => hres.kind = "return"
    /\ hres.kind = "return" =>
         /\ hres.vnode.ckind \in {"none", "text", "list"}
         /\ Survivors = << >> =>
              /\ hres.vnode.ckind = "none"
              /\ hres.vnode.kids = << >>
         /\ SurvivingTexts # << >> =>
              /\ hres.vnode.ckind = "text"
              /\ hres.vnode.text = TextOf(SurvivingTexts, 1)
              /\ hres.vnode.kids = << >>
         /\ SurvivingNodes # << >> =>
              /\ hres.vnode.ckind = "list"
              /\ Len(hres.vnode.kids) = Len(SurvivingNodes)
              /\ \A i \in 1..Len(SurvivingNodes) :
                   hres.vnode.kids[i] = SurvivingNodes[i].vnode

\* h was given [[["a"], 7], 12]: the text is "a712"
C18_Witness ==
  /\ hpc = "done"
  /\ hres.kind = "return"
  /\ Len(hargs.raw) = 2
  /\ hargs.raw[1] = RawArr(<< RawArr(<< RawStr("a") >>), RawNum(7) >>)
  /\ hargs.raw[2] = RawNum(12)
  /\ hres.vnode.ckind = "text"
  /\ hres.vnode.text = "a712"

\* C19: for every child argument list that, after discarding empty values and
\* flattening, holds at least one string or number and at least one Node (in
\* any order, at any depth), h throws and returns no Node (none is
\* constructed).
C19_MixedChildrenThrow ==
  (hpc = "done" /\ SurvivingTexts # << >> /\ SurvivingNodes # << >>)
    => /\ hres.kind = "throw"
       /\ hres.vnode = Null
       /\ vnodeId = 2

\* h was given [[[X], null], ""]: a nested Node before an empty string
C19_Witness ==
  /\ hpc = "done"
  /\ Len(hargs.raw) = 2
  /\ hargs.raw[1] = RawArr(<< RawArr(<< RawNode(ChildX) >>), RawNull >>)
  /\ hargs.raw[2] = RawStr("")
  /\ hres.kind = "throw"

----------------------------------------------------------------------------
(* Properties of the VNode identity counter, checked under Spec *)

\* C20: across any sequence of Node constructions each Node receives an id
\* strictly greater than the id of every Node constructed before it, and no
\* two Nodes share an id: the counter is above every id given out, within a
\* tree the children's ids increase left to right and stay below their
\* parent's, and every node of a new tree has an id above every node of the
\* tree before it and above every node whose removal is pending.
C20_IdsIncrease ==
  /\ \A x \in IdsOf(currentVNode) : x < vnodeId
  /\ Cardinality(IdsOf(currentVNode)) = Cardinality(NodesOf(currentVNode))
  /\ \A i \in 1..Len(Kids) :
       /\ Kids[i].id < currentVNode.id
       /\ \A j \in (i + 1)..Len(Kids) : Kids[i].id < Kids[j].id
  /\ lastOp.op \in {"mount", "update"} =>
       \A x \in IdsOf(pre.currentVNode), y \in IdsOf(currentVNode) : x < y
  /\ \A i \in 1..Len(pending) :
       /\ pending[i].id < vnodeId
       /\ \A y \in IdsOf(currentVNode) : pending[i].id < y

\* three trees of four nodes each were constructed: ids 0..11
C20_Witness ==
  /\ lastOp.op = "update"
  /\ calls = 2
  /\ Len(Kids) = 3
  /\ Len(PreKids) = 3
  /\ vnodeId = 12
  /\ currentVNode.id = 11
  /\ pre.currentVNode.id = 7

----------------------------------------------------------------------------
(* Properties of the renderer over RichFamilies, checked under SpecFull *)

RECURSIVE Materialized(_)
\* the node's handle is an element of the node's type whose host children are:
\* one Text node with the node's text; or the handles of the node's children,
\* in order, each materialized; or none
Materialized(v) ==
  LET n == MapGet(nodeMap, v.id) IN
  /\ n # NullNode
  /\ tagName[n] = v.type
  /\ v.ckind = "text" =>
       /\ Len(childNodes[n]) = 1
       /\ tagName[childNodes[n][1]] = "#text"
       /\ data[childNodes[n][1]] = v.text
  /\ v.ckind = "list" =>
       /\ Len(childNodes[n]) = Len(v.kids)
       /\ \A i \in 1..Len(v.kids) :
            /\ childNodes[n][i] = MapGet(nodeMap, v.kids[i].id)
            /\ Materialized(v.kids[i])
  /\ v.ckind = "none" => childNodes[n] = << >>

\* the host elements created so far (the container apart)
Elements == { n \in 2..Len(tagName) : tagName[n] # "#text" }

\* C21: after mount(node, container) returns, the current tree is node, the
\* container's child at index 0 is the root's handle, the identity map holds
\* exactly the ids of the tree, one host element exists per Node (no two Nodes
\* share one), every element's host children are its Node's children in tree
\* order, and a text child is one host Text node with that text; the call
\* started from an absent current tree.
C21_MountMaterializes ==
  (lastOp.op = "mount" /\ ~thrown) =>
    /\ pre.currentVNode = Null
    /\ currentVNode # Null
    /\ rootNode = MapGet(nodeMap, currentVNode.id)
    /\ Len(childNodes[container]) = 1
    /\ childNodes[container][1] = rootNode
    /\ DOMAIN nodeMap = IdsOf(currentVNode)
    /\ Elements = { nodeMap[x] : x \in DOMAIN nodeMap }
    /\ Cardinality(Elements) = Cardinality(NodesOf(currentVNode))
    /\ Materialized(currentVNode)

\* mount of a root over two children, the first with two children of its own
\* that each show a text, the second without children
C21_Witness ==
  /\ lastOp.op = "mount"
  /\ ~thrown
  /\ Len(Kids) = 2
  /\ Len(ChildList(Kids[1])) = 2
  /\ Kids[2].ckind = "none"
  /\ Cardinality(Elements) = 5
  /\ textContent(St, container) = "GH"

\* the patches the last mount() or update() handed to commit
LastPatches == diff(pre.currentVNode, lastOp.next)

\* the renderer and host state after the first n of these patches
AfterPatch(n) == commit(pre, SubSeq(LastPatches, 1, n))

\* the id the patch looks up (for INSERT the parent's, for MOVE the parent's
\* and the node's) is not in the identity map of state s
TargetAbsent(s, p) ==
  CASE p.type \in {"UPDATE_TEXT", "SET_PROP", "REMOVE_PROP", "REMOVE"} ->
         p.vnode.id \notin DOMAIN s.nodeMap
    [] p.type = "INSERT" -> p.parent.id \notin DOMAIN s.nodeMap
    [] p.type = "MOVE" ->
         \/ p.parent.id \notin DOMAIN s.nodeMap
         \/ p.vnode.id \notin DOMAIN s.nodeMap
    [] p.type = "UPDATE" -> p.oldVNode.id \notin DOMAIN s.nodeMap
    [] OTHER -> FALSE

\* the positions of the last batch whose patch was reached and found its
\* target absent
Skipped ==
  { n \in 1..Len(LastPatches) :
      /\ ~AfterPatch(n - 1).thrown
      /\ TargetAbsent(AfterPatch(n - 1), LastPatches[n]) }

SkippedTypes == { LastPatches[n].type : n \in Skipped }

\* C22: committing a patch other than REPLACE whose target id (for INSERT and
\* MOVE: parent id) is absent from the identity map leaves the identity map,
\* the host tree, the pending removals and the log of host and hook calls as
\* they were, and the patches after it are applied from that unchanged state.
C22_MissingIdNoOp ==
  lastOp.op \in {"mount", "update"} =>
    \A n \in Skipped :
      /\ AfterPatch(n) = AfterPatch(n - 1)
      /\ [St EXCEPT !.thrown = thrown, !.currentVNode = pre.currentVNode] =
           commitFrom(AfterPatch(n - 1), LastPatches, n + 1)

\* an update whose batch held a SET_PROP, an UPDATE, an INSERT and a MOVE with
\* absent ids, after which the root's UPDATE re-keyed the root's entry
C22_Witness ==
  /\ lastOp.op = "update"
  /\ ~thrown
  /\ {"SET_PROP", "UPDATE", "INSERT", "MOVE"} \subseteq SkippedTypes
  /\ Len(LastPatches) \notin Skipped
  /\ MapGet(nodeMap, currentVNode.id) = rootNode
  /\ pre.currentVNode.id \notin DOMAIN nodeMap

\* the positions of the last batch whose patch ran a hook that threw
Failing ==
  { n \in 1..Len(LastPatches) :
      ~AfterPatch(n - 1).thrown /\ AfterPatch(n).thrown }

\* C23: when a create, update or remove hook throws during mount() or
\* update(next), the call ends with that exception: the hook's call is the
\* last thing done, the state is the one the patches up to the failing one
\* produced (no later patch is applied, so the root's own UPDATE is not), and
\* the current tree is the one it was, not next.
C23_HookThrows ==
  lastOp.op \in {"mount", "update"} =>
    /\ thrown <=> Failing # {}
    /\ thrown =>
         /\ currentVNode = pre.currentVNode
         /\ currentVNode # lastOp.next
         /\ \A n \in Failing :
              [St EXCEPT !.thrown = TRUE] = AfterPatch(n)
         /\ hostLog[Len(hostLog)].op \in {"create", "update", "removeHook"}
         /\ lastOp.next.id \notin DOMAIN nodeMap
         /\ currentVNode # Null =>
              MapGet(nodeMap, currentVNode.id) = pre.nodeMap[currentVNode.id]

\* update([a, b] -> [a with an update hook that throws, b]): the batch has
\* three patches, the first throws, and b's entry is still under its old id
C23_Witness ==
  /\ lastOp.op = "update"
  /\ thrown
  /\ Len(LastPatches) = 3
  /\ Failing = {1}
  /\ hostLog[Len(hostLog)].op = "update"
  /\ Len(Kids) = 2
  /\ Kids[2].id \in DOMAIN nodeMap
  /\ Kids[1].id \notin DOMAIN nodeMap

----------------------------------------------------------------------------
(* Properties of diff over RichFamilies, checked under SpecDiffFull *)

RECURSIVE StripHooks(_)
\* the tree without any hooks entry, every node keeping its __id
StripHooks(v) ==
  IF v = Null THEN Null
  ELSE [v EXCEPT !.hooks = NoHooks,
                 !.kids = AsSeq([i \in 1..Len(v.kids) |-> StripHooks(v.kids[i])])]

\* the kind of a patch, the nodes it names (by __id) and its key, value and
\* indices
PatchShape(p) ==
  CASE p.type = "REPLACE" -> << p.type, p.vnode.id >>
    [] p.type = "UPDATE_TEXT" -> << p.type, p.vnode.id, p.value >>
    [] p.type = "SET_PROP" -> << p.type, p.vnode.id, p.key, p.value >>
    [] p.type = "REMOVE_PROP" -> << p.type, p.vnode.id, p.key >>
    [] p.type = "INSERT" -> << p.type, p.parent.id, p.vnode.id, p.index >>
    [] p.type = "MOVE" -> << p.type, p.parent.id, p.vnode.id, p.from, p.to >>
    [] p.type = "REMOVE" -> << p.type, p.parent.id, p.vnode.id >>
    [] p.type = "UPDATE" -> << p.type, p.oldVNode.id, p.newVNode.id >>

Shapes(ps) == AsSeq([i \in 1..Len(ps) |-> PatchShape(ps[i])])

\* C24: hooks never influence diffing: the patch list diff returns for two
\* trees has the same kinds, target nodes, keys, values and indices, in the
\* same order, as the list it returns for the same two trees without their
\* hooks entries (so any two pairs that differ only in hooks agree), and no
\* patch names the hooks key.
C24_HooksDoNotInfluenceDiff ==
  dpc = "done" =>
    /\ Shapes(dpatches) = Shapes(diff(StripHooks(dprev), StripHooks(dnext)))
    /\ \A i \in 1..Len(dpatches) :
         dpatches[i].type \in {"SET_PROP", "REMOVE_PROP"} =>
           dpatches[i].key # "hooks"

\* diff ran on two trees whose children have no text: a child of the next
\* tree declares an update hook its predecessor did not, and changes class
C24_Witness ==
  /\ dpc = "done"
  /\ Len(ChildList(dprev)) = 2
  /\ Len(ChildList(dnext)) = 2
  /\ ChildList(dprev)[1].hooks = NoHooks
  /\ ChildList(dnext)[1].hooks.update = "call"
  /\ ChildList(dprev)[2].hooks.update = "call"
  /\ ChildList(dnext)[2].hooks = NoHooks
  /\ ChildList(dprev)[1].ckind = "none"
  /\ \E i \in 1..Len(dpatches) :
       /\ dpatches[i].type = "SET_PROP"
       /\ dpatches[i].vnode = ChildList(dprev)[1]
       /\ dpatches[i].key = "class"

----------------------------------------------------------------------------
(* Deferred removals over later updates, checked under Spec *)

TextWrittenByStep(n) ==
  \E k \in (Len(pre.hostLog) + 1)..Len(hostLog) :
    hostLog[k].op = "textContent" /\ hostLog[k].node = n

\* the i-th deferred removal was outstanding when the last step began: its
\* callback not invoked, its entry present, its handle attached
Outstanding(i) ==
  /\ pre.pending[i].calls = 0
  /\ MapGet(pre.nodeMap, pre.pending[i].id) = pre.pending[i].node
  /\ parentNode(pre, pre.pending[i].node) # NullNode

----------------------------------------------------------------------------
(* The trailing UPDATE, checked under SpecDiffFull *)

\* the pairs (previous node, next node) of the same type that diff compares
\* below the roots: matched children, and their children matched by index
ComparedChildren ==
  { << MatchOf(ChildList(dprev), ChildList(dnext), i), ChildList(dnext)[i + 1] >> :
      i \in { j \in 0..(Len(ChildList(dnext)) - 1) :
                /\ Matched(ChildList(dprev), ChildList(dnext), j)
                /\ MatchOf(ChildList(dprev), ChildList(dnext), j).type =
                     ChildList(dnext)[j + 1].type } }

ComparedGrandchildren ==
  UNION { { << ChildList(pr[1])[k], ChildList(pr[2])[k] >> :
              k \in { m \in 1..Len(ChildList(pr[1])) :
                        /\ m <= Len(ChildList(pr[2]))
                        /\ ~hasKeys(ChildList(pr[1]), ChildList(pr[2]))
                        /\ ChildList(pr[1])[m].type = ChildList(pr[2])[m].type } } :
          pr \in ComparedChildren }

Compared == { << dprev, dnext >> } \cup ComparedChildren \cup ComparedGrandchildren

\* the positions of UPDATE(o, n) in the patch list
UpdatesOf(ps, o, n) ==
  { j \in 1..Len(ps) :
      ps[j] = [type |-> "UPDATE", oldVNode |-> o, newVNode |-> n] }

\* C26: whenever diff compares two present nodes of one type, the output of
\* that comparison is a run of the patch list that ends with UPDATE(previous,
\* next) (also when it holds no other patch); so diff's last patch is the
\* roots' UPDATE, and the UPDATE of every compared descendant stands before
\* the UPDATE of its ancestor.
C26_TrailingUpdate ==
  DiffedSameRoot =>
    /\ dpatches[Len(dpatches)] =
         [type |-> "UPDATE", oldVNode |-> dprev, newVNode |-> dnext]
    /\ \A pr \in Compared :
         /\ Cardinality(UpdatesOf(dpatches, pr[1], pr[2])) = 1
         /\ \A j \in UpdatesOf(dpatches, pr[1], pr[2]) :
              LET run == diffNonNull(pr[1], pr[2]) IN
              /\ j >= Len(run)
              /\ SubSeq(dpatches, j - Len(run) + 1, j) = run
              /\ \A k \in 1..Len(dpatches) :
                   (/\ dpatches[k].type = "UPDATE"
                    /\ dpatches[k].newVNode \in NodesOf(pr[2]) \ {pr[2]})
                     => k < j
    /\ \A j \in 1..Len(dpatches) :
         dpatches[j].type = "UPDATE" =>
           << dpatches[j].oldVNode, dpatches[j].newVNode >> \in Compared

\* diff ran on two equal trees of three levels: the patches are the UPDATE of
\* the grandchild, then of the child, then of the root, and nothing else
C26_Witness ==
  /\ DiffedSameRoot
  /\ Len(ChildList(dprev)) = 1
  /\ Len(ChildList(ChildList(dprev)[1])) = 1
  /\ Len(ChildList(dnext)) = 1
  /\ Len(ChildList(ChildList(dnext)[1])) = 1
  /\ Len(dpatches) = 3
  /\ dpatches[1] = [type |-> "UPDATE",
                    oldVNode |-> ChildList(ChildList(dprev)[1])[1],
                    newVNode |-> ChildList(ChildList(dnext)[1])[1]]
  /\ dpatches[2] = [type |-> "UPDATE", oldVNode |-> ChildList(dprev)[1],
                    newVNode |-> ChildList(dnext)[1]]
  /\ dpatches[3].type = "UPDATE"

----------------------------------------------------------------------------
(* The commit of single patches, checked under SpecFull *)

\* the positions of the last batch that were reached and hold a patch of the
\* given kind
Reached(kind) ==
  { n \in 1..Len(LastPatches) :
      LastPatches[n].type = kind /\ ~AfterPatch(n - 1).thrown }

\* update-hook calls the last step made for the node with the given __id
UpdateCalls(id) ==
  { k \in (Len(pre.hostLog) + 1)..Len(hostLog) :
      hostLog[k].op = "update" /\ hostLog[k].id = id }

\* the node of the next tree took over a handle that existed before the step
ReusedNode(n) ==
  /\ n.id \in DOMAIN nodeMap
  /\ nodeMap[n.id] <= Len(pre.tagName)
  /\ \E x \in DOMAIN pre.nodeMap : pre.nodeMap[x] = nodeMap[n.id]

\* C27: committing UPDATE(old, new) with old's id mapped maps new's id to the
\* handle old's id had, removes old's id when the ids differ, touches no other
\* entry and no host node, and invokes the update hook declared on new
\* exactly once with (old, new, handle); with old's id unmapped it changes
\* nothing and runs no hook. So in one update the update hook of every node
\* of the next tree that took over a handle runs exactly once, and no other
\* update hook runs.
C27_UpdateCommit ==
  lastOp.op = "update" =>
    /\ \A n \in Reached("UPDATE") :
         LET s == AfterPatch(n - 1)
             t == AfterPatch(n)
             old == LastPatches[n].oldVNode
             new == LastPatches[n].newVNode
         IN IF old.id \in DOMAIN s.nodeMap
            THEN /\ new.id \in DOMAIN t.nodeMap
                 /\ t.nodeMap[new.id] = s.nodeMap[old.id]
                 /\ old.id # new.id => old.id \notin DOMAIN t.nodeMap
                 /\ \A x \in DOMAIN s.nodeMap \ {old.id, new.id} :
                      x \in DOMAIN t.nodeMap /\ t.nodeMap[x] = s.nodeMap[x]
                 /\ DOMAIN t.nodeMap \subseteq DOMAIN s.nodeMap \cup {new.id}
                 /\ t.childNodes = s.childNodes
                 /\ t.attrs = s.attrs
                 /\ t.pending = s.pending
                 /\ t.hostLog =
                      IF new.hooks.update = "none" THEN s.hostLog
                      ELSE Append(s.hostLog,
                                  [op |-> "update", node |-> s.nodeMap[old.id],
                                   id |-> new.id, old |-> old.id])
            ELSE t = s
    /\ \A n \in NodesOf(lastOp.next) :
         Cardinality(UpdateCalls(n.id)) =
           IF n.hooks.update # "none" /\ ReusedNode(n) THEN 1 ELSE 0

\* an update over the current tree's own child VNodes, reordered: the UPDATE
\* of a child keeps its id mapped, and its update hook ran once
C27_Witness ==
  /\ lastOp.op = "update"
  /\ Len(Kids) = 3
  /\ Len(PreKids) = 3
  /\ Kids[1] = PreKids[3]
  /\ Kids[1].hooks.update = "call"
  /\ Kids[2].hooks.update = "none"
  /\ Cardinality(UpdateCalls(Kids[1].id)) = 1
  /\ MapGet(nodeMap, Kids[1].id) = pre.nodeMap[Kids[1].id]
  /\ pre.currentVNode.id \notin DOMAIN nodeMap

----------------------------------------------------------------------------
(* The order of patches against the re-keying UPDATE, checked under SpecDiff *)

\* the patch looks the previous-tree node with the given __id up in the
\* identity map: as its target, as the parent of an INSERT or MOVE, or as the
\* node a MOVE or REMOVE relocates
Addresses(p, id) ==
  CASE p.type \in {"SET_PROP", "REMOVE_PROP", "UPDATE_TEXT", "REMOVE"} ->
         p.vnode.id = id
    [] p.type = "INSERT" -> p.parent.id = id
    [] p.type = "MOVE" -> p.parent.id = id \/ p.vnode.id = id
    [] OTHER -> FALSE

\* C28: in diff's output for two trees whose sibling lists are keyed
\* throughout with distinct keys or unkeyed, no patch that addresses a
\* previous-tree node N (SET_PROP, REMOVE_PROP, UPDATE_TEXT, INSERT parent,
\* REMOVE, MOVE) stands after UPDATE(N, .) in the list, so that no MOVE is
\* committed after its node's identity-map entry was re-keyed.
C28_NothingAfterUpdate ==
  (/\ DiffedSameRoot
   /\ UniformKeys(ChildList(dprev))
   /\ UniformKeys(ChildList(dnext)))
    => \A j \in 1..Len(dpatches) :
         dpatches[j].type = "UPDATE" =>
           \A k \in (j + 1)..Len(dpatches) :
             ~Addresses(dpatches[k], dpatches[j].oldVNode.id)

----------------------------------------------------------------------------
(* The commit of MOVE, checked under SpecFull *)

\* number of places the handle has in the host tree of state s
Places(s, handle) ==
  Cardinality({ << q, i >> \in (1..Len(s.childNodes)) \X (1..Len(s.tagName)) :
                  i <= Len(s.childNodes[q]) /\ s.childNodes[q][i] = handle })

\* the positions of the last batch that hold a MOVE which was reached and
\* found both its parent and its node in the identity map
Moves == { n \in Reached("MOVE") : ~TargetAbsent(AfterPatch(n - 1), LastPatches[n]) }

\* C29: committing MOVE(parent, node, from, to) with both ids mapped detaches
\* the node's handle and re-inserts it under the parent's handle: afterwards
\* the handle is at index `to` of the parent's host children and has that one
\* place in the host tree, every other host node keeps its place relative to
\* the others, and the identity map is unchanged; the result does not depend
\* on `from`.
C29_MoveCommit ==
  lastOp.op = "update" =>
    \A n \in Moves :
      LET s == AfterPatch(n - 1)
          t == AfterPatch(n)
          p == LastPatches[n]
          parentN == s.nodeMap[p.parent.id]
          childN == s.nodeMap[p.vnode.id]
      IN /\ Len(t.childNodes[parentN]) > p.to
         /\ t.childNodes[parentN][p.to + 1] = childN
         /\ Places(t, childN) = 1
         /\ \A q \in 1..Len(s.childNodes) :
              RemoveFrom(t.childNodes[q], childN) =
                RemoveFrom(s.childNodes[q], childN)
         /\ t.nodeMap = s.nodeMap
         /\ t.pending = s.pending
         /\ commitPatch(s, [p EXCEPT !.from = p.to]) = t
         /\ commitPatch(s, [p EXCEPT !.from = p.from + 1]) = t

\* an update over the current tree's own child VNodes moved the first child
\* of three to the end: the MOVE found its ids and the host order follows
C29_Witness ==
  /\ lastOp.op = "update"
  /\ Len(Kids) = 3
  /\ Len(PreKids) = 3
  /\ Kids[3] = PreKids[1]
  /\ Kids[1] = PreKids[2]
  /\ Cardinality(Moves) = 3
  /\ childNodes[rootNode] =
       << pre.nodeMap[PreKids[2].id], pre.nodeMap[PreKids[3].id],
          pre.nodeMap[PreKids[1].id] >>

----------------------------------------------------------------------------
(* The props of two compared nodes, checked under SpecDiffFull *)

\* the compared pairs that take the props path: not text on both sides
PropsCompared ==
  { pr \in Compared : ~(pr[1].ckind = "text" /\ pr[2].ckind = "text") }

\* the positions of the patch list that belong to the comparison of pr and
\* stand before its UPDATE: after the UPDATE of any earlier comparison of the
\* same previous node
SegmentOf(pr) ==
  LET j == CHOOSE u \in UpdatesOf(dpatches, pr[1], pr[2]) : TRUE
      before == { u \in 1..(j - 1) :
                    /\ dpatches[u].type = "UPDATE"
                    /\ dpatches[u].oldVNode = pr[1] }
      from == IF before = {} THEN 0
              ELSE CHOOSE u \in before : \A w \in before : w <= u
  IN (from + 1)..(j - 1)

\* the positions of the comparison of pr that hold a patch of the kind on
\* the previous node
PropPatchesAt(pr, kind) ==
  { u \in SegmentOf(pr) : dpatches[u].type = kind /\ dpatches[u].vnode = pr[1] }

\* the keys of next props, other than hooks, whose value differs from
\* previous props
ChangedKeys(pr) ==
  { k \in { PropKeys[i] : i \in 1..Len(PropKeys) } :
      pr[2].props[k] # Absent /\ pr[2].props[k] # pr[1].props[k] }

\* the keys of previous props, other than hooks, absent from next props
DroppedKeys(pr) ==
  { k \in { PropKeys[i] : i \in 1..Len(PropKeys) } :
      pr[1].props[k] # Absent /\ pr[2].props[k] = Absent }

\* C30: for two compared nodes of one type that do not both have text
\* children, diff emits SET_PROP(previous, k, next value) once for each key k
\* of next props whose value differs from previous props and for no other
\* key, and REMOVE_PROP(previous, k) once for each key k of previous props
\* absent from next props and for no other key; no props patch names the
\* hooks key, and every props patch comes from such a comparison.
C30_PropsDiff ==
  DiffedSameRoot =>
    /\ \A pr \in PropsCompared :
         /\ { dpatches[u] : u \in PropPatchesAt(pr, "SET_PROP") } =
              { [type |-> "SET_PROP", vnode |-> pr[1], key |-> k,
                 value |-> pr[2].props[k]] : k \in ChangedKeys(pr) }
         /\ Cardinality(PropPatchesAt(pr, "SET_PROP")) =
              Cardinality(ChangedKeys(pr))
         /\ { dpatches[u] : u \in PropPatchesAt(pr, "REMOVE_PROP") } =
              { [type |-> "REMOVE_PROP", vnode |-> pr[1], key |-> k] :
                  k \in DroppedKeys(pr) }
         /\ Cardinality(PropPatchesAt(pr, "REMOVE_PROP")) =
              Cardinality(DroppedKeys(pr))
    /\ \A u \in 1..Len(dpatches) :
         dpatches[u].type \in {"SET_PROP", "REMOVE_PROP"} =>
           /\ dpatches[u].key # "hooks"
           /\ \E pr \in PropsCompared :
                u \in PropPatchesAt(pr, dpatches[u].type)

\* diff ran on two childless children: the first gained a class and an update
\* hook, the second lost its class while keeping its hook; the patches are
\* one SET_PROP, one REMOVE_PROP and the three UPDATEs
C30_Witness ==
  /\ DiffedSameRoot
  /\ Len(ChildList(dprev)) = 2
  /\ Len(ChildList(dnext)) = 2
  /\ ChildList(dprev)[1].ckind = "none"
  /\ ChildList(dnext)[1].ckind = "none"
  /\ ChildList(dprev)[1].hooks.update = "none"
  /\ ChildList(dnext)[1].hooks.update = "call"
  /\ ChildList(dprev)[2].hooks.update = "call"
  /\ ChildList(dnext)[2].hooks.update = "call"
  /\ dpatches =
       << [type |-> "SET_PROP", vnode |-> ChildList(dprev)[1], key |-> "class",
           value |-> "x"],
          [type |-> "UPDATE", oldVNode |-> ChildList(dprev)[1],
           newVNode |-> ChildList(dnext)[1]],
          [type |-> "REMOVE_PROP", vnode |-> ChildList(dprev)[2],
           key |-> "class"],
          [type |-> "UPDATE", oldVNode |-> ChildList(dprev)[2],
           newVNode |-> ChildList(dnext)[2]],
          [type |-> "UPDATE", oldVNode |-> dprev, newVNode |-> dnext] >>

----------------------------------------------------------------------------
(* The text fast path, checked under SpecDiffFull *)

\* the compared pairs that take the text fast path: text on both sides
TextCompared ==
  { pr \in Compared : pr[1].ckind = "text" /\ pr[2].ckind = "text" }

\* the positions of the comparison of pr that hold a patch the comparison
\* itself pushed: a patch on the previous node, or on a child of it
OwnPatchesAt(pr) ==
  { u \in SegmentOf(pr) :
      \/ /\ dpatches[u].type \in {"SET_PROP", "REMOVE_PROP", "UPDATE_TEXT"}
         /\ dpatches[u].vnode = pr[1]
      \/ /\ dpatches[u].type \in {"INSERT", "REMOVE", "MOVE"}
         /\ dpatches[u].parent = pr[1] }

\* C31: for two compared nodes of one type that both have text children, the
\* output of the comparison is UPDATE_TEXT(previous, next text) directly
\* followed by UPDATE(previous, next) when the texts differ, and
\* UPDATE(previous, next) alone otherwise: no SET_PROP, REMOVE_PROP or child
\* patch comes from it, also when the props differ; for two roots with text
\* this is the whole patch list.
C31_TextFastPath ==
  DiffedSameRoot =>
    /\ \A pr \in TextCompared :
         LET j == CHOOSE u \in UpdatesOf(dpatches, pr[1], pr[2]) : TRUE IN
         /\ Cardinality(UpdatesOf(dpatches, pr[1], pr[2])) = 1
         /\ IF pr[1].text # pr[2].text
            THEN /\ j > 1
                 /\ dpatches[j - 1] = [type |-> "UPDATE_TEXT", vnode |-> pr[1],
                                       value |-> pr[2].text]
                 /\ OwnPatchesAt(pr) = {j - 1}
            ELSE OwnPatchesAt(pr) = {}
    /\ (dprev.ckind = "text" /\ dnext.ckind = "text") =>
         dpatches =
           (IF dprev.text # dnext.text
            THEN << [type |-> "UPDATE_TEXT", vnode |-> dprev,
                     value |-> dnext.text] >>
            ELSE << >>)
           \o << [type |-> "UPDATE", oldVNode |-> dprev, newVNode |-> dnext] >>

\* diff ran on two lists of two text children: the first changed its text and
\* its class, the second changed its class alone; the patches are the
\* UPDATE_TEXT and the three UPDATEs
C31_Witness ==
  /\ DiffedSameRoot
  /\ Len(ChildList(dprev)) = 2
  /\ Len(ChildList(dnext)) = 2
  /\ ChildList(dprev)[1].props.class = "x"
  /\ ChildList(dnext)[1].props.class = "y"
  /\ ChildList(dprev)[2].props.class = "x"
  /\ ChildList(dnext)[2].props.class = Absent
  /\ ChildList(dprev)[2].ckind = "text"
  /\ ChildList(dnext)[2].ckind = "text"
  /\ dpatches =
       << [type |-> "UPDATE_TEXT", vnode |-> ChildList(dprev)[1],
           value |-> "World"],
          [type |-> "UPDATE", oldVNode |-> ChildList(dprev)[1],
           newVNode |-> ChildList(dnext)[1]],
          [type |-> "UPDATE", oldVNode |-> ChildList(dprev)[2],
           newVNode |-> ChildList(dnext)[2]],
          [type |-> "UPDATE", oldVNode |-> dprev, newVNode |-> dnext] >>

----------------------------------------------------------------------------
(* A change of the children kind, checked under Spec *)

\* a renderer state with an empty container and no tree
Blank ==
  [currentVNode |-> Null, rootNode |-> NullNode, nodeMap |-> EmptyMap,
   pending |-> << >>, childNodes |-> << << >> >>, tagName |-> << "div" >>,
   data |-> << "" >>, attrs |-> << NoProps >>, hostLog |-> << >>,
   thrown |-> FALSE]

RECURSIVE HostShape(_, _)
\* the host subtree of node n in state s: tag, character data, children
HostShape(s, n) ==
  [tag |-> s.tagName[n], data |-> s.data[n],
   kids |-> AsSeq([i \in 1..Len(s.childNodes[n]) |->
                     HostShape(s, s.childNodes[n][i])])]

\* the host subtree that materializing v from scratch produces
FromScratch(v) ==
  LET r == createNode(Blank, v) IN HostShape(r.s, r.node)

\* the children kinds of the root before and after the last update
KindChange == << pre.currentVNode.ckind, currentVNode.ckind >>

\* the changes of kind between text and a list or no children
TextKindChanges ==
  { << "text", "list" >>, << "list", "text" >>,
    << "text", "none" >>, << "none", "text" >> }

\* C32: when the children of the root change kind between text and a list or
\* no children while its type is unchanged, in the first update after mount,
\* the host content of the root after update(next) equals what materializing
\* next from scratch produces.
C32_KindChangeContent ==
  (/\ TreeUpdate
   /\ calls = 1
   /\ pre.currentVNode.type = currentVNode.type
   /\ KindChange \in TextKindChanges
   /\ pre.pending = << >>
   /\ pending = << >>)
    => HostShape(St, rootNode) = FromScratch(currentVNode)

----------------------------------------------------------------------------
(* Materializing a subtree, checked under SpecFull *)

\* the positions of the last batch that hold a REPLACE(node) or an INSERT
\* which was reached, found its parent, and materialized its subtree without
\* an exception
Materializations ==
  { n \in Reached("REPLACE") \cup Reached("INSERT") :
      /\ LastPatches[n].vnode # Null
      /\ ~TargetAbsent(AfterPatch(n - 1), LastPatches[n])
      /\ ~AfterPatch(n).thrown }

\* the positions of the host log of t, after the log of s, at which the create
\* hook of the node with the id ran
CreateCalls(s, t, id) ==
  { k \in (Len(s.hostLog) + 1)..Len(t.hostLog) :
      t.hostLog[k].op = "create" /\ t.hostLog[k].id = id }

\* the host elements made between the states s and t
ElementsMade(s, t) ==
  { x \in (Len(s.tagName) + 1)..Len(t.tagName) : t.tagName[x] # "#text" }

\* C33: materializing a subtree for REPLACE or INSERT creates one host element
\* per node of the subtree, registers every node's id in the identity map,
\* has the id registered when the node's create hook runs, invokes each
\* declared create hook exactly once and no other, and invokes the create
\* hooks of all descendants of a node before the node's own.
C33_Materialization ==
  lastOp.op \in {"mount", "update"} =>
    \A n \in Materializations :
      LET s == AfterPatch(n - 1)
          t == AfterPatch(n)
          nodes == NodesOf(LastPatches[n].vnode)
      IN /\ Cardinality(ElementsMade(s, t)) = Cardinality(nodes)
         /\ \A v \in nodes :
              /\ v.id \in DOMAIN t.nodeMap
              /\ t.nodeMap[v.id] \in ElementsMade(s, t)
              /\ t.tagName[t.nodeMap[v.id]] = v.type
              /\ Cardinality(CreateCalls(s, t, v.id)) =
                   IF v.hooks.create # "none" THEN 1 ELSE 0
              /\ \A k \in CreateCalls(s, t, v.id) :
                   /\ t.hostLog[k].mapped
                   /\ t.hostLog[k].node = t.nodeMap[v.id]
                   /\ \A w \in NodesOf(v) \ {v} :
                        \A j \in CreateCalls(s, t, w.id) : j < k
         /\ \A v, w \in nodes : v # w => t.nodeMap[v.id] # t.nodeMap[w.id]
         /\ \A k \in (Len(s.hostLog) + 1)..Len(t.hostLog) :
              t.hostLog[k].op = "create" =>
                \E v \in nodes : v.id = t.hostLog[k].id

\* an update inserted a child with two children of its own, all three with a
\* create hook, under an empty root: the hooks ran for the first grandchild,
\* the second grandchild and then the child
C33_Witness ==
  /\ lastOp.op = "update"
  /\ ~thrown
  /\ Len(PreKids) = 0
  /\ Len(Kids) = 1
  /\ Len(ChildList(Kids[1])) = 2
  /\ Cardinality(Materializations) = 1
  /\ Len(hostLog) = Len(pre.hostLog) + 3
  /\ hostLog[Len(hostLog) - 2].op = "create"
  /\ hostLog[Len(hostLog) - 2].id = ChildList(Kids[1])[1].id
  /\ hostLog[Len(hostLog) - 1].op = "create"
  /\ hostLog[Len(hostLog) - 1].id = ChildList(Kids[1])[2].id
  /\ hostLog[Len(hostLog)].op = "create"
  /\ hostLog[Len(hostLog)].id = Kids[1].id
  /\ hostLog[Len(hostLog)].mapped

----------------------------------------------------------------------------
(* The moment of the create hook, checked under SpecFull *)

\* C34: whenever a create hook runs, the handle it receives is already
\* attached to its parent handle.
C34_CreateAfterInsert ==
  \A k \in 1..Len(hostLog) :
    hostLog[k].op = "create" => hostLog[k].attached

----------------------------------------------------------------------------
(* Index reconciliation, checked under Spec *)

\* the last call was an update between two roots of one type whose children
\* are lists (or absent) without a key, with no removal pending, on a host
\* that showed the previous list
UnkeyedUpdate ==
  /\ TreeUpdate
  /\ pre.currentVNode.type = currentVNode.type
  /\ pre.currentVNode.ckind # "text"
  /\ currentVNode.ckind # "text"
  /\ ~hasKeys(PreKids, Kids)
  /\ pre.pending = << >>
  /\ pending = << >>
  /\ pre.childNodes[pre.rootNode] =
       AsSeq([i \in 1..Len(PreKids) |-> MapGet(pre.nodeMap, PreKids[i].id)])

\* the positions of the patch p in the last batch
At(p) == { u \in 1..Len(LastPatches) : LastPatches[u] = p }

\* the position in the last batch that ends the output for the 1-based
\* position i of the two lists, 0 when there is none
EndOf(i) ==
  LET mark ==
        IF i > Len(PreKids)
        THEN [type |-> "INSERT", parent |-> pre.currentVNode,
              vnode |-> Kids[i], index |-> i - 1]
        ELSE IF i > Len(Kids)
        THEN [type |-> "REMOVE", parent |-> pre.currentVNode,
              vnode |-> PreKids[i]]
        ELSE IF PreKids[i].type # Kids[i].type
        THEN [type |-> "INSERT", parent |-> pre.currentVNode,
              vnode |-> Kids[i], index |-> i - 1]
        ELSE [type |-> "UPDATE", oldVNode |-> PreKids[i], newVNode |-> Kids[i]]
  IN IF At(mark) = {} THEN 0 ELSE CHOOSE u \in At(mark) : TRUE

\* the larger of the two lengths
MaxLen2 == IF Len(PreKids) >= Len(Kids) THEN Len(PreKids) ELSE Len(Kids)

\* C35: for two sibling lists without keys, diff walks the positions in order
\* and emits INSERT(parent, child, i) once for each position present only in
\* next, REMOVE(parent, child) once for each position present only in
\* previous, the patches of the recursive comparison for a pair of one type,
\* REMOVE directly followed by INSERT for a pair of two types, and no other
\* patch on the parent's list; committing the output with no remove hooks
\* leaves the parent's host children equal in count and order to the next
\* list.
C35_IndexReconciliation ==
  UnkeyedUpdate =>
    /\ \A i \in 1..MaxLen2 :
         /\ EndOf(i) > 0
         /\ \A j \in 1..(i - 1) : EndOf(j) < EndOf(i)
         /\ i > Len(PreKids) =>
              Cardinality(At([type |-> "INSERT", parent |-> pre.currentVNode,
                              vnode |-> Kids[i], index |-> i - 1])) = 1
         /\ i > Len(Kids) =>
              Cardinality(At([type |-> "REMOVE", parent |-> pre.currentVNode,
                              vnode |-> PreKids[i]])) = 1
         /\ (i <= Len(PreKids) /\ i <= Len(Kids)) =>
              IF PreKids[i].type = Kids[i].type
              THEN /\ Cardinality(At([type |-> "UPDATE", oldVNode |-> PreKids[i],
                                      newVNode |-> Kids[i]])) = 1
                   /\ EndOf(i) >= Len(diffNonNull(PreKids[i], Kids[i]))
                   /\ SubSeq(LastPatches,
                             EndOf(i) - Len(diffNonNull(PreKids[i], Kids[i])) + 1,
                             EndOf(i)) = diffNonNull(PreKids[i], Kids[i])
              ELSE /\ EndOf(i) > 1
                   /\ LastPatches[EndOf(i) - 1] =
                        [type |-> "REMOVE", parent |-> pre.currentVNode,
                         vnode |-> PreKids[i]]
    /\ Cardinality({ u \in 1..Len(LastPatches) :
                       /\ LastPatches[u].type = "INSERT"
                       /\ LastPatches[u].parent = pre.currentVNode }) =
         Cardinality({ i \in 1..Len(Kids) :
                         i > Len(PreKids) \/ PreKids[i].type # Kids[i].type })
    /\ Cardinality({ u \in 1..Len(LastPatches) :
                       /\ LastPatches[u].type = "REMOVE"
                       /\ LastPatches[u].parent = pre.currentVNode }) =
         Cardinality({ i \in 1..Len(PreKids) :
                         i > Len(Kids) \/ PreKids[i].type # Kids[i].type })
    /\ \A u \in 1..Len(LastPatches) : LastPatches[u].type # "MOVE"
    /\ rootNode = pre.rootNode
    /\ Len(childNodes[rootNode]) = Len(Kids)
    /\ \A i \in 1..Len(Kids) :
         /\ childNodes[rootNode][i] = MapGet(nodeMap, Kids[i].id)
         /\ tagName[childNodes[rootNode][i]] = Kids[i].type
         /\ textContent(St, childNodes[rootNode][i]) = Kids[i].text

\* an update from <p, span, p> to <span, span>: REMOVE and INSERT at position
\* 0, the recursion at position 1, REMOVE at position 2, and the host shows
\* the two spans
C35_Witness ==
  /\ UnkeyedUpdate
  /\ Len(PreKids) = 3
  /\ Len(Kids) = 2
  /\ PreKids[1].type = "p"
  /\ PreKids[2].type = "span"
  /\ Kids[1].type = "span"
  /\ Kids[2].type = "span"
  /\ Len(LastPatches) = 5
  /\ LastPatches[1].type = "REMOVE"
  /\ LastPatches[2].type = "INSERT"
  /\ LastPatches[3].type = "UPDATE"
  /\ LastPatches[4].type = "REMOVE"
  /\ Len(childNodes[rootNode]) = 2
  /\ tagName[childNodes[rootNode][1]] = "span"

----------------------------------------------------------------------------
(* The choice of keyed reconciliation, checked under SpecDiff *)

\* diff compared the child lists of two roots of one type
DiffedLists ==
  /\ DiffedSameRoot
  /\ ~(dprev.ckind = "text" /\ dnext.ckind = "text")

\* some child of the list has a key
SomeKey(l) == \E i \in 1..Len(l) : l[i].key # NoKey

\* the 1-based positions of the next list whose child has no key, or a key no
\* previous child has
NewPositions ==
  { i \in 1..Len(ChildList(dnext)) :
      \/ ChildList(dnext)[i].key = NoKey
      \/ \A k \in 1..Len(ChildList(dprev)) :
           ChildList(dprev)[k].key # ChildList(dnext)[i].key }

\* the 1-based positions of the previous list whose child no next child was
\* matched with by key: it has no key, or no next child has its key, or a
\* later previous child has the same key
UnmatchedPositions ==
  { k \in 1..Len(ChildList(dprev)) :
      \/ ChildList(dprev)[k].key = NoKey
      \/ \A i \in 1..Len(ChildList(dnext)) :
           ChildList(dnext)[i].key # ChildList(dprev)[k].key
      \/ \E m \in (k + 1)..Len(ChildList(dprev)) :
           ChildList(dprev)[m].key = ChildList(dprev)[k].key }

\* the positions of the patch p in diff's output
DAt(p) == { u \in 1..Len(dpatches) : dpatches[u] = p }

\* the unmatched previous positions, in list order
UnmatchedSeq ==
  SelectSeq(AsSeq([k \in 1..Len(ChildList(dprev)) |-> k]),
            LAMBDA k : k \in UnmatchedPositions)

\* C36: keyed reconciliation is used exactly when some child of the previous
\* or of the next list has a key. In that mode every next child without a key
\* or with a key no previous child has yields INSERT at its index, once, and
\* the previous children not matched by key (every previous child without a
\* key among them) yield REMOVE, in list order, after all patches for next
\* children: they are the patches directly before the parent's UPDATE.
\* Without any key every pair of one type at one position is compared instead
\* and yields neither INSERT nor REMOVE.
C36_KeyedMode ==
  DiffedLists =>
    IF SomeKey(ChildList(dprev)) \/ SomeKey(ChildList(dnext))
    THEN /\ \A i \in NewPositions :
              Cardinality(DAt([type |-> "INSERT", parent |-> dprev,
                               vnode |-> ChildList(dnext)[i],
                               index |-> i - 1])) = 1
         /\ Len(dpatches) > Len(UnmatchedSeq)
         /\ \A q \in 1..Len(UnmatchedSeq) :
              dpatches[Len(dpatches) - 1 - Len(UnmatchedSeq) + q] =
                [type |-> "REMOVE", parent |-> dprev,
                 vnode |-> ChildList(dprev)[UnmatchedSeq[q]]]
         /\ \A k \in UnmatchedPositions :
              Cardinality(DAt([type |-> "REMOVE", parent |-> dprev,
                               vnode |-> ChildList(dprev)[k]])) = 1
    ELSE \A i \in 1..Len(ChildList(dnext)) :
           (/\ i <= Len(ChildList(dprev))
            /\ ChildList(dprev)[i].type = ChildList(dnext)[i].type) =>
             /\ DAt([type |-> "UPDATE", oldVNode |-> ChildList(dprev)[i],
                     newVNode |-> ChildList(dnext)[i]]) # {}
             /\ DAt([type |-> "INSERT", parent |-> dprev,
                     vnode |-> ChildList(dnext)[i], index |-> i - 1]) = {}
             /\ DAt([type |-> "REMOVE", parent |-> dprev,
                     vnode |-> ChildList(dprev)[i]]) = {}

\* diff ran on <a, unkeyed> and <unkeyed, a>: the unkeyed next child is
\* inserted at 0, a is compared and moved, and the unkeyed previous child is
\* removed last before the parent's UPDATE
C36_Witness ==
  /\ DiffedLists
  /\ Len(ChildList(dprev)) = 2
  /\ Len(ChildList(dnext)) = 2
  /\ ChildList(dprev)[1].key = "a"
  /\ ChildList(dprev)[2].key = NoKey
  /\ ChildList(dnext)[1].key = NoKey
  /\ ChildList(dnext)[2].key = "a"
  /\ ChildList(dprev)[2].type = ChildList(dnext)[1].type
  /\ Len(dpatches) = 5
  /\ dpatches[1] = [type |-> "INSERT", parent |-> dprev,
                    vnode |-> ChildList(dnext)[1], index |-> 0]
  /\ dpatches[2].type = "UPDATE"
  /\ dpatches[3].type = "MOVE"
  /\ dpatches[4] = [type |-> "REMOVE", parent |-> dprev,
                    vnode |-> ChildList(dprev)[2]]

----------------------------------------------------------------------------
(* The commit of REPLACE, checked under SpecFull *)

\* the positions of the last batch that hold a REPLACE which was reached and
\* committed without an exception
Replaces == { n \in Reached("REPLACE") : ~AfterPatch(n).thrown }

\* C37: committing REPLACE(node) removes the old root handle, when there is
\* one, from the host and empties the identity map, then materializes node and
\* installs its handle as the root at index 0 of the container: afterwards the
\* keys of the identity map are exactly the ids of node's subtree and the
\* container holds the new root alone. REPLACE(absent) leaves no root, an
\* empty container and an empty map.
C37_ReplaceCommit ==
  lastOp.op \in {"mount", "update"} =>
    \A n \in Replaces :
      LET s == AfterPatch(n - 1)
          t == AfterPatch(n)
          v == LastPatches[n].vnode
      IN /\ s.rootNode # NullNode =>
              /\ parentNode(t, s.rootNode) = NullNode
              /\ \A x \in DOMAIN s.nodeMap :
                   x \in DOMAIN t.nodeMap => x \in IdsOf(v)
              /\ t.hostLog[Len(s.hostLog) + 1] =
                   [op |-> "remove", node |-> s.rootNode, by |-> "REPLACE"]
         /\ IF v # Null
            THEN /\ DOMAIN t.nodeMap = IdsOf(v)
                 /\ t.rootNode = t.nodeMap[v.id]
                 /\ t.rootNode > Len(s.tagName)
                 /\ t.tagName[t.rootNode] = v.type
                 /\ t.childNodes[container] = << t.rootNode >>
                 /\ \A w \in NodesOf(v) : t.nodeMap[w.id] > Len(s.tagName)
            ELSE /\ t.rootNode = NullNode
                 /\ t.nodeMap = EmptyMap
                 /\ t.childNodes[container] = << >>
         /\ t.pending = s.pending

\* an update replaced a div root over two children by a section root over one
\* child: the old root is detached, the map holds the two new ids alone
C37_Witness ==
  /\ lastOp.op = "update"
  /\ Cardinality(Replaces) = 1
  /\ pre.rootNode # NullNode
  /\ pre.currentVNode.type = "div"
  /\ Len(PreKids) = 2
  /\ currentVNode.type = "section"
  /\ Len(Kids) = 1
  /\ parentNode(St, pre.rootNode) = NullNode
  /\ rootNode # pre.rootNode
  /\ childNodes[container] = << rootNode >>
  /\ DOMAIN nodeMap = { currentVNode.id, Kids[1].id }

----------------------------------------------------------------------------
(* Where REPLACE occurs, checked under SpecDiff *)

\* the positions of diff's output that hold a REPLACE
ReplacesIn(ps) == { u \in 1..Len(ps) : ps[u].type = "REPLACE" }

\* exactly one of the two trees is absent, or their roots differ in type
RootReplaced ==
  \/ dprev = Null /\ dnext # Null
  \/ dprev # Null /\ dnext = Null
  \/ dprev # Null /\ dnext # Null /\ dprev.type # dnext.type

\* C38: a REPLACE occurs in diff's output only as the single element of the
\* list returned for the roots: the output is the list of REPLACE(next) alone
\* when one tree is absent or the roots differ in type, and holds no REPLACE
\* otherwise, also when children of the two trees differ in type.
C38_ReplaceAlone ==
  dpc = "done" =>
    /\ ReplacesIn(dpatches) # {} => Len(dpatches) = 1
    /\ IF RootReplaced
       THEN dpatches = << [type |-> "REPLACE", vnode |-> dnext] >>
       ELSE ReplacesIn(dpatches) = {}

\* diff ran on a div root and a section root, both over children: the output
\* is the REPLACE alone
C38_Witness ==
  /\ dpc = "done"
  /\ dprev # Null
  /\ dnext # Null
  /\ dprev.type = "div"
  /\ dnext.type = "section"
  /\ Len(ChildList(dprev)) = 2
  /\ Len(ChildList(dnext)) = 2
  /\ ChildList(dprev)[1].type # ChildList(dnext)[1].type
  /\ dpatches = << [type |-> "REPLACE", vnode |-> dnext] >>

----------------------------------------------------------------------------
(* The keys of the identity map, checked under SpecFull *)

\* the hooks the caller declares never throw
NoThrowingHooks ==
  "throw" \notin (menu.creates \cup menu.updates \cup menu.removes)

\* the ids of the nodes whose deferred removal is still pending
PendingIds ==
  { pending[i].id : i \in { j \in 1..Len(pending) : pending[j].calls = 0 } }

\* C39: after any sequence of mount, update, completion-callback and unmount
\* steps in which no hook throws, every key of the identity map is the id of a
\* node of the current tree or of a node whose deferred removal is still
\* pending.
C39_MapKeysLive ==
  NoThrowingHooks => DOMAIN nodeMap \subseteq IdsOf(currentVNode) \cup PendingIds

----------------------------------------------------------------------------
(* A completion callback that fires after the identity map was cleared,
   checked under SpecFull *)

\* the handles the identity map holds for the nodes of the tree s shows
TreeHandles(s) ==
  IF s.currentVNode = Null THEN {}
  ELSE { s.nodeMap[id] : id \in IdsOf(s.currentVNode) \cap DOMAIN s.nodeMap }

\* a completion callback fired for a removal that was deferred before a root
\* REPLACE or an unmount cleared the identity map
LateCompletion ==
  /\ lastOp.op = "done"
  /\ ClearedSince(pre.pending[lastOp.arg].id)

\* C40: a completion callback that fires after a root REPLACE or an unmount
\* cleared the identity map deletes no identity-map entry of the tree that is
\* current at that time and detaches no host handle belonging to that tree.
C40_LateCompletion ==
  (LateCompletion /\ pre.currentVNode # Null) =>
    /\ \A id \in IdsOf(pre.currentVNode) \cap DOMAIN pre.nodeMap :
         /\ id \in DOMAIN nodeMap
         /\ nodeMap[id] = pre.nodeMap[id]
    /\ \A n \in TreeHandles(pre) : parentNode(St, n) = parentNode(pre, n)

====
